---- MODULE Spec2Model ----
(***************************************************************************)
(* Life-cycle engine of test-a-ble: TestRunner.run_tests / run_test        *)
(* (src/test_a_ble/test_runner.py) driving the TestContext collaborator.   *)
(*                                                                         *)
(* Strings that the code splits on "." are sequences of components:        *)
(* "m.t1" is <<"m", "t1">>, "t1" is <<"t1">>; the empty sequence is the    *)
(* empty (falsy) string.                                                   *)
(***************************************************************************)
EXTENDS Integers, Sequences, FiniteSets, TLC

VARIABLES
    test_results,         \* TestContext.test_results: key -> result (NoResult = key absent)
    current_test,         \* TestContext.current_test: key of the test being run, or NoKey
    pc,                   \* position of the coroutine run_tests / run_test
    tests,                \* run_tests: the list argument
    idx,                  \* run_tests: number of loop iterations begun
    test_class_instance,  \* run_test: local test_class_instance (line 64)
    rc_instance,          \* _run_class_test: local test_class_instance (line 156)
    exc,                  \* exception in flight, or NoExc
    caught,               \* the exception the try block of run_test ended with, or NoExc
    swallowed,            \* the exception _run_teardown logged and dropped, or NoExc
    result,               \* run_test: local result / value returned
    calls,                \* collaborator and test-code calls of the current run_test call, in order
    called,               \* names run_test was called with in the current batch, in order
    first_result,         \* name -> result returned by the first run_test call for it
    cleanups,             \* calls of cleanup_tasks in the current batch
    escaped,              \* the exception that left run_test in the current batch, or NoExc
    nbatches,             \* run_tests calls made on this runner
    cwd,                  \* discovery: the directory tree under the current directory
    loader,               \* discovery: sys.modules and the executions of each file
    dpc,                  \* position of TestRunner.discover_tests
    test_specifiers,      \* discover_tests: the list argument
    spec_i,               \* discover_tests: index of the specifier the loop is at
    all_tests,            \* discover_tests: local tests
    outcomes,             \* outcome of each discover_tests_from_specifier call, in order
    discovery_error,      \* the exception that left discover_tests, or "none"
    ancestors,            \* package lookup: the directory `path` and its parents, nearest first
    sys_modules,          \* package lookup: names registered in sys.modules
    ppc,                  \* position of find_and_import_nearest_package
    current_dir,          \* find_and_import_nearest_package: local current_dir (index in ancestors)
    parent_count,         \* find_and_import_nearest_package: local parent_count
    lookup,               \* find_and_import_nearest_package: value returned (0 is None)
    device,               \* BLEManager.device
    client,               \* BLEManager.client
    connected,            \* BLEManager.connected
    is_connected,         \* BleakClient.is_connected of the client the manager holds
    active_subscriptions, \* BLEManager.active_subscriptions (a list)
    notification_callbacks, \* BLEManager.notification_callbacks: uuid -> callbacks, or NoEntry
    services,             \* BLEManager.services: the addresses with cached services
    characteristics,      \* BLEManager.characteristics
    bpc,                  \* position of the BLEManager coroutine in progress
    retry_count,          \* _attempt_connection: argument retry_count (0 once another operation starts)
    attempt,              \* _attempt_connection: loop variable attempt (0 once another operation starts)
    sub_it,               \* disconnect: position of the iterator over active_subscriptions
    requests,             \* calls made on the client and on asyncio.sleep by the current operation
    returned,             \* outcome of the last BLEManager operation
    subs_at_call,         \* active_subscriptions when disconnect() was called, until the next operation starts
    starts,               \* uuid -> start_notify calls since the uuid last had no entry in notification_callbacks
    invoked,              \* the last notification and the callbacks it invoked, in order
    spc,                  \* position of dynamic_device_selection
    scan_task,            \* state of the task running _scan_for_devices
    ui_task,              \* state of the task running _update_device_table_ui
    stop_event,           \* asyncio.Event stop_event is set
    ui_update_needed,     \* asyncio.Event ui_update_needed is set
    found_devices,        \* dynamic_device_selection: len(discovered_devices)
    clock,                \* time passed since the scanner was started
    typed,                \* the user has entered a line
    pending,              \* what _handle_user_input does once the tasks have ended
    sel_connected,        \* dynamic_device_selection: local connected
    cpc,                  \* position of run_ble_tests
    cli_connected,        \* run_ble_tests: local connected
    cli_runner,           \* run_ble_tests: local test_runner is set
    cli_exc,              \* run_ble_tests: the exception in flight, or "none"
    run_modules,          \* _run_test_modules: argument all_tests
    module_i,             \* _run_test_modules: batches run
    context_results,      \* TestContext.test_results of the runner: test -> status
    summed,               \* _run_test_modules: local all_results
    discoveries,          \* calls of discover_tests by run_ble_tests
    context_cleanups,     \* outcome of each cleanup_tasks call of _perform_cleanup
    disconnects           \* outcome of each BLEManager.disconnect call of run_ble_tests

\* the variables of the life-cycle engine
rvars == <<test_results, current_test, pc, tests, idx, test_class_instance,
           rc_instance, exc, caught, swallowed, result, calls, called,
           first_result, cleanups, escaped, nbatches>>

\* the variables of test discovery
dvars == <<cwd, loader, dpc, test_specifiers, spec_i, all_tests, outcomes,
           discovery_error>>

\* the variables of the package lookup
pvars == <<ancestors, sys_modules, ppc, current_dir, parent_count, lookup>>

\* the variables of the BLE manager
bvars == <<device, client, connected, is_connected, active_subscriptions,
           notification_callbacks, services, characteristics, bpc,
           retry_count, attempt, sub_it, requests, returned, subs_at_call,
           starts, invoked>>

\* the variables of the interactive device selection
svars == <<spc, scan_task, ui_task, stop_event, ui_update_needed,
           found_devices, clock, typed, pending, sel_connected>>

\* the variables of run_ble_tests
cvars == <<cpc, cli_connected, cli_runner, cli_exc, run_modules, module_i,
           context_results, summed, discoveries, context_cleanups,
           disconnects>>

\* what the life-cycle engine, discovery, the package lookup, the BLE
\* manager, the device selection and run_ble_tests each leave alone
not_rvars == <<dvars, pvars, bvars, svars, cvars>>

not_dvars == <<rvars, pvars, bvars, svars, cvars>>

not_pvars == <<rvars, dvars, bvars, svars, cvars>>

not_bvars == <<rvars, dvars, pvars, svars, cvars>>

not_svars == <<rvars, dvars, pvars, bvars, cvars>>

not_cvars == <<rvars, dvars, pvars, bvars, svars>>

vars == <<rvars, dvars, pvars, bvars, svars, cvars>>

-----------------------------------------------------------------------------
(* Bounds of the model *)

MaxTests == 2      \* longest list handed to run_tests

MaxBatches == 1    \* run_tests calls on one runner

-----------------------------------------------------------------------------
(* Values *)

TerminalStatuses == {"PASS", "FAIL", "ERROR", "SKIP"}

NoKey == <<>>

NoResult == [status |-> "ABSENT", message |-> ""]

NoExc == [kind |-> "None", text |-> "", status |-> "", origin |-> ""]

Texts == {"X"}

\* Exceptions test code can raise.  "Interrupt" stands for the BaseException
\* family (KeyboardInterrupt, asyncio.CancelledError); a TestException carries
\* the status it targets.
Raisable(origin) ==
    { [kind |-> k, text |-> t, status |-> "", origin |-> origin] :
        k \in {"TestFailure", "AssertionError", "TestSkip", "TimeoutError",
               "Exception", "Interrupt"},
        t \in Texts }
    \cup
    { [kind |-> "TestException", text |-> "X", status |-> s, origin |-> origin] :
        s \in TerminalStatuses }

\* Exceptions a collaborator call or a tearDown can raise.
Failure(origin) ==
    [kind |-> "Exception", text |-> "X", status |-> "", origin |-> origin]

\* The test items run_tests is given: (test_name, test_item) pairs.
\* kind "func": a standalone coroutine function; kind "class": the tuple
\* (class_name, class_obj, method).  descr is _test_description (<<>> when
\* missing or empty), mname is method.__name__.
Catalog ==
    { [name |-> <<"t1">>, kind |-> "func", descr |-> <<>>, mname |-> "t1",
       hasSetUp |-> FALSE, hasTearDown |-> FALSE],
      [name |-> <<"m", "t1">>, kind |-> "func", descr |-> <<>>, mname |-> "t1",
       hasSetUp |-> FALSE, hasTearDown |-> FALSE],
      [name |-> <<"m", "C", "t2">>, kind |-> "class", descr |-> <<"d">>, mname |-> "t2",
       hasSetUp |-> TRUE, hasTearDown |-> TRUE],
      [name |-> <<"m", "D", "t3">>, kind |-> "class", descr |-> <<>>, mname |-> "t3",
       hasSetUp |-> FALSE, hasTearDown |-> TRUE] }

Batches == UNION { [1..n -> Catalog] : n \in 1..MaxTests }

-----------------------------------------------------------------------------
(* Pure helpers of the runner *)

\* TestRunner._get_test_description
_get_test_description(test_name, test_item) ==
    IF test_item.kind = "class"
    THEN IF test_item.descr # <<>> THEN test_item.descr ELSE <<test_item.mname>>
    ELSE IF test_item.descr # <<>> THEN test_item.descr
         ELSE <<test_name[Len(test_name)]>>

Keys == { t.name : t \in Catalog } \cup
        { _get_test_description(t.name, t) : t \in Catalog }

\* run_test lines 56-59: the duplicate guard
HasResult(test_name) ==
    /\ test_results[test_name] # NoResult
    /\ test_results[test_name].status # "RUNNING"

\* Variant of Handled without the catch-all clause of line 97
Handled_NoCatchAll(e) ==
    e.kind \in {"TestFailure", "AssertionError", "TestSkip", "TestException",
                "TimeoutError"}

\* run_test lines 81-100: which except clause takes the exception; FALSE when
\* none does (a BaseException passes through all of them)
Handled(e) == e.kind # "Interrupt"

\* Variant of HandlerStatus that reports a timeout as a failure
HandlerStatus_TimeoutFails(e) ==
    IF e.kind \in {"TestFailure", "AssertionError", "TimeoutError"} THEN "FAIL"
    ELSE IF e.kind = "TestSkip" THEN "SKIP"
    ELSE IF e.kind = "TestException" THEN e.status
    ELSE "ERROR"

\* run_test lines 81-100: the status each except clause hands to end_test,
\* clauses tried in source order
HandlerStatus(e) ==
    IF e.kind \in {"TestFailure", "AssertionError"} THEN "FAIL"
    ELSE IF e.kind = "TestSkip" THEN "SKIP"
    ELSE IF e.kind = "TestException" THEN e.status
    ELSE IF e.kind = "TimeoutError" THEN "ERROR"
    ELSE "ERROR"

\* run_test line 103: `if test_class_instance:`
TeardownDue(instance) == instance # "None"

\* Variant of TestAt that walks the list from its end
TestAt_Reversed(ts, i) == ts[Len(ts) + 1 - i]

\* run_tests line 119: the i-th element the for loop yields
TestAt(ts, i) == ts[i]

\* TestContext.start_test(description): a RUNNING result under the key it is given
StartTest(description) ==
    /\ test_results' = [test_results EXCEPT ![description] =
                            [status |-> "RUNNING", message |-> ""]]
    /\ current_test' = description

\* TestContext.end_test(status, message): finalizes the current test's result
EndTest(status, message) ==
    /\ test_results' = [test_results EXCEPT ![current_test] =
                            [status |-> status, message |-> message]]
    /\ result' = [status |-> status, message |-> message]
    /\ current_test' = NoKey

Cur == TestAt(tests, idx)

-----------------------------------------------------------------------------
(* Initial state: a fresh TestRunner *)

IdleRunner ==
    /\ test_results = [k \in Keys |-> NoResult]
    /\ current_test = NoKey
    /\ pc = "idle"
    /\ tests = <<>>
    /\ idx = 0
    /\ test_class_instance = "None"
    /\ rc_instance = "None"
    /\ exc = NoExc
    /\ caught = NoExc
    /\ swallowed = NoExc
    /\ result = NoResult
    /\ calls = <<>>
    /\ called = <<>>
    /\ first_result = [t \in { c.name : c \in Catalog } |-> NoResult]
    /\ cleanups = 0
    /\ escaped = NoExc
    /\ nbatches = 0

\* no discovery is under way and none is looked at
NoDiscovery ==
    /\ cwd = <<>>
    /\ loader = <<>>
    /\ dpc = "off"
    /\ test_specifiers = <<>>
    /\ spec_i = 0
    /\ all_tests = <<>>
    /\ outcomes = <<>>
    /\ discovery_error = "none"

\* no package lookup is under way and none is looked at
NoLookup ==
    /\ ancestors = <<>>
    /\ sys_modules = {}
    /\ ppc = "off"
    /\ current_dir = 0
    /\ parent_count = 0
    /\ lookup = 0

\* characteristics the model subscribes to
UUIDs == {"u1", "u2"}

\* notification_callbacks[u] of a characteristic that is not a key of the dict
NoEntry == <<"<absent>">>

\* no notification has arrived
NoNotification == [uuid |-> "", payload |-> "None", calls |-> <<>>]

\* BLEManager.__init__ (ble_manager.py lines 88-98)
BLEManager_init ==
    /\ device = "None"
    /\ client = "None"
    /\ connected = FALSE
    /\ is_connected = FALSE
    /\ active_subscriptions = <<>>
    /\ notification_callbacks = [u \in UUIDs |-> NoEntry]
    /\ services = {}
    /\ characteristics = {}
    /\ retry_count = 0
    /\ attempt = 0
    /\ sub_it = 0
    /\ requests = <<>>
    /\ returned = "none"
    /\ subs_at_call = <<>>
    /\ starts = [u \in UUIDs |-> 0]
    /\ invoked = NoNotification

\* no BLE manager is looked at
NoManager == BLEManager_init /\ bpc = "off"

\* dynamic_device_selection before its tasks are created (cli.py lines 352-367)
NotSelecting ==
    /\ scan_task = "none"
    /\ ui_task = "none"
    /\ stop_event = FALSE
    /\ ui_update_needed = FALSE
    /\ found_devices = 0
    /\ clock = 0
    /\ typed = FALSE
    /\ pending = "none"
    /\ sel_connected = FALSE

\* no device selection is looked at
NoSelection == NotSelecting /\ spc = "off"

\* tests the command line runs
TestNames == {"t1", "t2", "t3", "t4"}

\* _run_test_modules lines 661-666: the empty all_results
NoResults ==
    [results |-> [t \in TestNames |-> "ABSENT"],
     passed_tests |-> 0, failed_tests |-> 0, total_tests |-> 0]

\* run_ble_tests before its try block (cli.py lines 825-829)
NotRunning ==
    /\ cli_connected = FALSE
    /\ cli_runner = FALSE
    /\ cli_exc = "none"
    /\ run_modules = <<>>
    /\ module_i = 0
    /\ context_results = [t \in TestNames |-> "ABSENT"]
    /\ summed = NoResults
    /\ discoveries = 0
    /\ context_cleanups = <<>>
    /\ disconnects = <<>>

\* no run of the command line is looked at
NoCliRun == NotRunning /\ cpc = "off"

Init == IdleRunner /\ NoDiscovery /\ NoLookup /\ NoManager /\ NoSelection /\ NoCliRun

-----------------------------------------------------------------------------
(* run_tests *)

\* run_tests is called with a list of tests (line 109)
RunTests(batch) ==
    /\ pc \in {"idle", "done"}
    /\ nbatches < MaxBatches
    /\ nbatches' = nbatches + 1
    /\ tests' = batch
    /\ idx' = 0
    /\ called' = <<>>
    /\ calls' = <<>>
    /\ cleanups' = 0
    /\ escaped' = NoExc
    /\ caught' = NoExc
    /\ swallowed' = NoExc
    /\ result' = NoResult
    /\ test_class_instance' = "None"
    /\ rc_instance' = "None"
    /\ pc' = "loop"
    /\ UNCHANGED <<test_results, current_test, exc, first_result>>
    /\ UNCHANGED not_rvars

\* run_test lines 55-61: the next test already has a finished result
RunTest_Duplicate ==
    /\ pc = "loop"
    /\ idx < Len(tests)
    /\ LET t == TestAt(tests, idx + 1) IN
        /\ HasResult(t.name)
        /\ idx' = idx + 1
        /\ called' = Append(called, t.name)
        /\ result' = test_results[t.name]
    /\ calls' = <<>>
    /\ caught' = NoExc
    /\ swallowed' = NoExc
    /\ test_class_instance' = "None"
    /\ rc_instance' = "None"
    /\ pc' = "return"
    /\ UNCHANGED <<test_results, current_test, tests, exc, first_result,
                   cleanups, escaped, nbatches>>
    /\ UNCHANGED not_rvars

\* run_test lines 63-71: description, start_test
RunTest_Start ==
    /\ pc = "loop"
    /\ idx < Len(tests)
    /\ LET t == TestAt(tests, idx + 1) IN
        /\ ~HasResult(t.name)
        /\ idx' = idx + 1
        /\ called' = Append(called, t.name)
        /\ StartTest(_get_test_description(t.name, t))
    /\ calls' = <<"start_test">>
    /\ caught' = NoExc
    /\ swallowed' = NoExc
    /\ result' = NoResult
    /\ test_class_instance' = "None"
    /\ rc_instance' = "None"
    /\ pc' = "try"
    /\ UNCHANGED <<tests, exc, first_result, cleanups, escaped, nbatches>>
    /\ UNCHANGED not_rvars

Raise(e, at) ==
    /\ exc' = e
    /\ caught' = e
    /\ pc' = at

\* _run_class_test lines 155-156: class_obj()
Construct ==
    /\ pc = "try"
    /\ Cur.kind = "class"
    /\ calls' = Append(calls, "construct")
    /\ \/ /\ rc_instance' = "inst"
          /\ pc' = IF Cur.hasSetUp THEN "setUp" ELSE "method"
          /\ UNCHANGED <<exc, caught>>
       \/ /\ Raise(Failure("construct"), "except")
          /\ UNCHANGED rc_instance
    /\ UNCHANGED <<test_results, current_test, tests, idx, test_class_instance,
                   result, called, first_result, cleanups, escaped, nbatches>>
    /\ UNCHANGED swallowed
    /\ UNCHANGED not_rvars

\* _run_class_test lines 159-160, _run_setup
SetUp ==
    /\ pc = "setUp"
    /\ calls' = Append(calls, "setUp")
    /\ \/ /\ pc' = "method"
          /\ UNCHANGED <<exc, caught>>
       \/ \E e \in Raisable("setUp") : Raise(e, "except")
    /\ UNCHANGED <<test_results, current_test, tests, idx, test_class_instance,
                   rc_instance, result, called, first_result, cleanups, escaped,
                   nbatches>>
    /\ UNCHANGED swallowed
    /\ UNCHANGED not_rvars

\* _run_class_test lines 163-166 and run_test line 75: the method, then the
\* instance is returned and bound in run_test
Method ==
    /\ pc = "method"
    /\ calls' = Append(calls, "method")
    /\ \/ /\ test_class_instance' = rc_instance
          /\ pc' = "pass"
          /\ UNCHANGED <<exc, caught>>
       \/ /\ \E e \in Raisable("method") : Raise(e, "except")
          /\ UNCHANGED test_class_instance
    /\ UNCHANGED <<test_results, current_test, tests, idx, rc_instance, result,
                   called, first_result, cleanups, escaped, nbatches>>
    /\ UNCHANGED swallowed
    /\ UNCHANGED not_rvars

\* run_test line 77, _run_standalone_test
Standalone ==
    /\ pc = "try"
    /\ Cur.kind = "func"
    /\ calls' = Append(calls, "test_func")
    /\ \/ /\ pc' = "pass"
          /\ UNCHANGED <<exc, caught>>
       \/ \E e \in Raisable("test_func") : Raise(e, "except")
    /\ UNCHANGED <<test_results, current_test, tests, idx, test_class_instance,
                   rc_instance, result, called, first_result, cleanups, escaped,
                   nbatches>>
    /\ UNCHANGED swallowed
    /\ UNCHANGED not_rvars

\* Variant of EndPass that forgets to finalize the result
EndPass_NoEndTest ==
    /\ pc = "pass"
    /\ pc' = "finally"
    /\ UNCHANGED <<test_results, current_test, result, calls, tests, idx,
                   test_class_instance, rc_instance, exc, caught, called,
                   first_result, cleanups, escaped, nbatches, swallowed>>
    /\ UNCHANGED not_rvars

\* run_test line 79
EndPass ==
    /\ pc = "pass"
    /\ EndTest("PASS", "")
    /\ calls' = Append(calls, "end_test")
    /\ pc' = "finally"
    /\ UNCHANGED <<tests, idx, test_class_instance, rc_instance, exc, caught,
                   called, first_result, cleanups, escaped, nbatches>>
    /\ UNCHANGED swallowed
    /\ UNCHANGED not_rvars

\* run_test lines 81-100: the except clauses
Except ==
    /\ pc = "except"
    /\ IF Handled(exc)
       THEN /\ EndTest(HandlerStatus(exc), exc.text)
            /\ calls' = Append(calls, "end_test")
            /\ exc' = NoExc
       ELSE UNCHANGED <<test_results, current_test, result, calls, exc>>
    /\ pc' = "finally"
    /\ UNCHANGED <<tests, idx, test_class_instance, rc_instance, caught,
                   called, first_result, cleanups, escaped, nbatches>>
    /\ UNCHANGED swallowed
    /\ UNCHANGED not_rvars

\* Variant of Finally_TearDown whose tearDown exception is not caught
Finally_TearDown_Unguarded ==
    /\ pc = "finally"
    /\ TeardownDue(test_class_instance)
    /\ IF Cur.hasTearDown
       THEN /\ calls' = Append(calls, "tearDown")
            /\ \/ /\ pc' = "unsubscribe"
                  /\ UNCHANGED exc
               \/ /\ exc' = Failure("tearDown")
                  /\ pc' = "propagate"
       ELSE /\ pc' = "unsubscribe"
            /\ UNCHANGED <<calls, exc>>
    /\ UNCHANGED <<test_results, current_test, tests, idx, test_class_instance,
                   rc_instance, caught, swallowed, result, called, first_result,
                   cleanups, escaped, nbatches>>
    /\ UNCHANGED not_rvars

\* Variant of Finally_TearDown that records a tearDown exception as the
\* test's result
Finally_TearDown_RecordsError ==
    /\ pc = "finally"
    /\ TeardownDue(test_class_instance)
    /\ IF Cur.hasTearDown
       THEN /\ calls' = Append(calls, "tearDown")
            /\ \/ UNCHANGED <<swallowed, test_results>>
               \/ /\ swallowed' = Failure("tearDown")
                  /\ test_results' =
                        [test_results EXCEPT
                            ![_get_test_description(Cur.name, Cur)] =
                                [status |-> "ERROR", message |-> "X"]]
       ELSE UNCHANGED <<calls, swallowed, test_results>>
    /\ pc' = "unsubscribe"
    /\ UNCHANGED <<current_test, tests, idx, test_class_instance,
                   rc_instance, exc, caught, result, called, first_result,
                   cleanups, escaped, nbatches>>
    /\ UNCHANGED not_rvars

\* run_test lines 103-104, _run_teardown: tearDown of the bound instance; an
\* Exception it raises is logged and dropped (lines 208-209)
Finally_TearDown ==
    /\ pc = "finally"
    /\ TeardownDue(test_class_instance)
    /\ IF Cur.hasTearDown
       THEN /\ calls' = Append(calls, "tearDown")
            /\ \/ UNCHANGED swallowed
               \/ swallowed' = Failure("tearDown")
       ELSE UNCHANGED <<calls, swallowed>>
    /\ pc' = "unsubscribe"
    /\ UNCHANGED <<test_results, current_test, tests, idx, test_class_instance,
                   rc_instance, exc, caught, result, called, first_result,
                   cleanups, escaped, nbatches>>
    /\ UNCHANGED not_rvars

\* run_test line 103 when no instance is bound
Finally_NoInstance ==
    /\ pc = "finally"
    /\ ~TeardownDue(test_class_instance)
    /\ pc' = "unsubscribe"
    /\ UNCHANGED <<test_results, current_test, tests, idx, test_class_instance,
                   rc_instance, exc, caught, result, calls, called, first_result,
                   cleanups, escaped, nbatches>>
    /\ UNCHANGED swallowed
    /\ UNCHANGED not_rvars

\* run_test line 105: unsubscribe_all, inside the finally block and unguarded
UnsubscribeAll ==
    /\ pc = "unsubscribe"
    /\ calls' = Append(calls, "unsubscribe_all")
    /\ \/ /\ pc' = IF exc = NoExc THEN "return" ELSE "propagate"
          /\ UNCHANGED exc
       \/ /\ exc' = Failure("unsubscribe_all")
          /\ pc' = "propagate"
    /\ UNCHANGED <<test_results, current_test, tests, idx, test_class_instance,
                   rc_instance, caught, result, called, first_result, cleanups,
                   escaped, nbatches>>
    /\ UNCHANGED swallowed
    /\ UNCHANGED not_rvars

\* run_test line 107 (and 61): return result; back in the loop of run_tests
RunTest_Return ==
    /\ pc = "return"
    /\ first_result' = IF first_result[Cur.name] = NoResult
                       THEN [first_result EXCEPT ![Cur.name] = result]
                       ELSE first_result
    /\ pc' = "loop"
    /\ UNCHANGED <<test_results, current_test, tests, idx, test_class_instance,
                   rc_instance, exc, caught, result, calls, called, cleanups,
                   escaped, nbatches>>
    /\ UNCHANGED swallowed
    /\ UNCHANGED not_rvars

\* Variant of RunTest_Propagate for a run_tests without its finally block
RunTest_Propagate_NoFinally ==
    /\ pc = "propagate"
    /\ escaped' = exc
    /\ pc' = "raised"
    /\ UNCHANGED <<test_results, current_test, tests, idx, test_class_instance,
                   rc_instance, exc, caught, swallowed, result, calls, called,
                   first_result, cleanups, nbatches>>
    /\ UNCHANGED not_rvars

\* an exception leaves run_test: run_tests line 120 has no handler, control
\* goes to the finally block of line 122
RunTest_Propagate ==
    /\ pc = "propagate"
    /\ escaped' = exc
    /\ pc' = "batch_finally"
    /\ UNCHANGED <<test_results, current_test, tests, idx, test_class_instance,
                   rc_instance, exc, caught, result, calls, called, first_result,
                   cleanups, nbatches>>
    /\ UNCHANGED swallowed
    /\ UNCHANGED not_rvars

\* run_tests line 121: the loop is over, the summary is computed
Summary ==
    /\ pc = "loop"
    /\ idx = Len(tests)
    /\ pc' = "batch_finally"
    /\ UNCHANGED <<test_results, current_test, tests, idx, test_class_instance,
                   rc_instance, exc, caught, result, calls, called, first_result,
                   cleanups, escaped, nbatches>>
    /\ UNCHANGED swallowed
    /\ UNCHANGED not_rvars

\* run_tests lines 122-123: cleanup_tasks in the finally block, then the
\* summary is returned ("done") or an exception leaves run_tests ("raised")
CleanupTasks ==
    /\ pc = "batch_finally"
    /\ cleanups' = cleanups + 1
    /\ \/ /\ pc' = IF exc = NoExc THEN "done" ELSE "raised"
          /\ UNCHANGED exc
       \/ /\ exc' = Failure("cleanup_tasks")
          /\ pc' = "raised"
    /\ UNCHANGED <<test_results, current_test, tests, idx, test_class_instance,
                   rc_instance, caught, result, calls, called, first_result,
                   escaped, nbatches>>
    /\ UNCHANGED swallowed
    /\ UNCHANGED not_rvars

Next ==
    \/ \E b \in Batches : RunTests(b)
    \/ RunTest_Duplicate
    \/ RunTest_Start
    \/ Construct
    \/ SetUp
    \/ Method
    \/ Standalone
    \/ EndPass
    \/ Except
    \/ Finally_TearDown
    \/ Finally_NoInstance
    \/ UnsubscribeAll
    \/ RunTest_Return
    \/ RunTest_Propagate
    \/ Summary
    \/ CleanupTasks

Spec == Init /\ [][Next]_vars

-----------------------------------------------------------------------------
(* Test discovery: src/test_a_ble/test_discovery.py                        *)
(*                                                                         *)
(* Strings are sequences of tokens.  "/", "." and "*" are tokens of their  *)
(* own; every other token is a run of identifier characters that the code  *)
(* never looks into ("test_", "function", "_1", "py", ...).  No token is a *)
(* prefix of another one, so comparing token sequences by the rank of      *)
(* their tokens is comparing the strings character by character.           *)

None == <<"<None>">>

Truthy(s) == s # None /\ s # <<>>

\* the tokens in ascending order of the strings they stand for
Alphabet ==
    <<"*", ".", "/", "Class", "Test", "_1", "_2", "__init__", "_test", "all", "alpha", "bad",
      "beta", "class", "function", "helper", "method", "nodir", "order",
      "pkg", "py", "sync", "test_", "tests", "zeta">>

Rank(t) == CHOOSE k \in 1..Len(Alphabet) : Alphabet[k] = t

RECURSIVE StrLess(_, _)
\* str.__lt__
StrLess(a, b) ==
    IF b = <<>> THEN FALSE
    ELSE IF a = <<>> THEN TRUE
    ELSE IF Head(a) = Head(b) THEN StrLess(Tail(a), Tail(b))
    ELSE Rank(Head(a)) < Rank(Head(b))

\* `t in s` for a one-character t
Contains(s, t) == \E k \in 1..Len(s) : s[k] = t

\* str.startswith
StartsWith(s, p) == Len(p) <= Len(s) /\ SubSeq(s, 1, Len(p)) = p

\* str.endswith
EndsWith(s, p) ==
    Len(p) <= Len(s) /\ SubSeq(s, Len(s) - Len(p) + 1, Len(s)) = p

RECURSIVE Split(_, _)
\* str.split(sep) for a one-character sep
Split(s, sep) ==
    IF ~Contains(s, sep) THEN <<s>>
    ELSE LET k == CHOOSE j \in 1..Len(s) :
                    s[j] = sep /\ \A h \in 1..(j - 1) : s[h] # sep
         IN <<SubSeq(s, 1, k - 1)>> \o Split(SubSeq(s, k + 1, Len(s)), sep)

RECURSIVE JoinWith(_, _)
\* sep.join(parts)
JoinWith(parts, sep) ==
    IF parts = <<>> THEN <<>>
    ELSE IF Len(parts) = 1 THEN parts[1]
    ELSE parts[1] \o <<sep>> \o JoinWith(Tail(parts), sep)

RECURSIVE fnmatch(_, _)
\* fnmatch.fnmatch(name, pattern), patterns made of literals and "*"
fnmatch(name, pattern) ==
    IF pattern = <<>> THEN name = <<>>
    ELSE IF Head(pattern) = "*"
         THEN \/ fnmatch(name, Tail(pattern))
              \/ name # <<>> /\ fnmatch(Tail(name), pattern)
         ELSE /\ name # <<>>
              /\ Head(name) = Head(pattern)
              /\ fnmatch(Tail(name), Tail(pattern))

\* _check_wildcard_match
_check_wildcard_match(test_wildcard, test_string) ==
    test_wildcard = None \/ fnmatch(test_string, test_wildcard)

DotPy == <<".", "py">>

\* Path(name).with_suffix("") / Path(name).stem for a name with one suffix
Stem(name) ==
    IF Contains(name, ".") /\ name[Len(name)] # "." /\ Len(name) >= 3
            /\ name[Len(name) - 1] = "."
    THEN SubSeq(name, 1, Len(name) - 2)
    ELSE name

\* _split_components
_split_components(path_component) ==
    IF Contains(path_component, ".")
    THEN LET parts == Split(path_component, ".") IN
         IF Len(parts) = 2
         THEN [file |-> parts[1], method |-> parts[2]]
         ELSE [file |-> path_component, method |-> None]
    ELSE [file |-> path_component, method |-> None]

\* _parse_test_specifier
_parse_test_specifier(specifier) ==
    LET path_components == Split(specifier, "/")
        component_count == Len(path_components)
        last == _split_components(path_components[component_count])
        parsed ==
            IF component_count = 1
            THEN IF Contains(path_components[1], ".")
                 THEN [directory |-> None, file |-> last.file,
                       method |-> last.method]
                 ELSE [directory |-> path_components[1], file |-> None,
                       method |-> None]
            ELSE [directory |->
                      JoinWith(SubSeq(path_components, 1, component_count - 1), "/"),
                  file |-> last.file, method |-> last.method]
    IN IF Truthy(parsed.file) /\ Contains(parsed.file, "*")
       THEN [directory |-> IF Truthy(parsed.directory)
                           THEN parsed.directory \o <<"/">> \o parsed.file
                           ELSE parsed.file,
             file |-> None, method |-> parsed.method]
       ELSE parsed

(* The file system under the current working directory, and what the      *)
(* test files in it declare.                                               *)

S_init == <<"__init__", ".", "py">>
S_test_function == <<"test_", "function", ".", "py">>
S_test_class == <<"test_", "class", ".", "py">>
S_test_order == <<"test_", "order", ".", "py">>
S_test_bad == <<"test_", "bad", ".", "py">>
S_helper == <<"helper", ".", "py">>

\* one declaration of a module or of a class body; tagged: it carries the
\* mark of the ble_test / ble_test_class decorator
Decl(name, kind, async, tagged, line, methods) ==
    [name |-> name, kind |-> kind, async |-> async, tagged |-> tagged,
     line |-> line, methods |-> methods]

\* What executing a file defines, in the order of its statements, and the
\* line at which its top-level code raises (0: it does not raise).
ModuleSource(file) ==
    IF file = S_test_function THEN
        \* test_function.py of the test package (src/tests/test_test_discovery.py)
        [raise_line |-> 0, decls |->
            <<Decl(<<"test_", "function", "_1">>, "func", TRUE, FALSE, 1, <<>>),
              Decl(<<"test_", "function", "_2">>, "func", TRUE, FALSE, 4, <<>>)>>]
    ELSE IF file = S_test_class THEN
        \* test_class.py of the test package (src/tests/test_test_discovery.py)
        [raise_line |-> 0, decls |->
            <<Decl(<<"Test", "Class">>, "class", FALSE, FALSE, 1,
                <<Decl(<<"test_", "method", "_1">>, "func", TRUE, FALSE, 2, <<>>),
                  Decl(<<"test_", "method", "_2">>, "func", TRUE, FALSE, 5, <<>>)>>)>>]
    ELSE IF file = S_test_order THEN
        \* declarations whose source order is not the order of their names
        [raise_line |-> 0, decls |->
            <<Decl(<<"test_", "beta">>, "func", TRUE, FALSE, 1, <<>>),
              Decl(<<"Test", "zeta">>, "class", FALSE, FALSE, 4,
                <<Decl(<<"test_", "method", "_2">>, "func", TRUE, FALSE, 5, <<>>),
                  Decl(<<"test_", "method", "_1">>, "func", TRUE, FALSE, 8, <<>>),
                  Decl(<<"helper">>, "func", TRUE, FALSE, 11, <<>>),
                  Decl(<<"test_", "sync">>, "func", FALSE, FALSE, 12, <<>>)>>),
              Decl(<<"test_", "alpha">>, "func", TRUE, FALSE, 14, <<>>),
              Decl(<<"test_", "sync">>, "func", FALSE, FALSE, 17, <<>>),
              Decl(<<"order">>, "func", TRUE, TRUE, 20, <<>>),
              Decl(<<"sync">>, "func", FALSE, TRUE, 23, <<>>)>>]
    ELSE IF file = S_test_bad THEN
        \* defines one test, then raises
        [raise_line |-> 4, decls |->
            <<Decl(<<"test_", "alpha">>, "func", TRUE, FALSE, 1, <<>>),
              Decl(<<"test_", "beta">>, "func", TRUE, FALSE, 7, <<>>)>>]
    ELSE [raise_line |-> 0, decls |-> <<>>]

Files == {S_init, S_test_function, S_test_class, S_test_order, S_test_bad, S_helper}

D_root == <<>>
D_tests == <<<<"tests">>>>
D_alpha_1 == <<<<"alpha", "_1">>>>
D_zeta == <<<<"zeta">>>>
D_tests_alpha_1 == <<<<"tests">>, <<"alpha", "_1">>>>

\* A directory tree: the name of the root, whether the parent of the root is
\* on sys.path, what a module that fails raises, the sub-directories in
\* listing order, and the listing of each directory (iterdir / glob order).
Tree(name, importable, raises, subdirs, listing) ==
    [name |-> name, importable |-> importable, raises |-> raises,
     subdirs |-> subdirs, listing |-> listing]

\* what a module can raise while it is imported
LoadErrors == {"ImportError", "Exception"}

\* the test package of src/tests/test_test_discovery.py: __init__.py,
\* test_function.py and test_class.py
PackageTree(importable) ==
    Tree(<<"pkg">>, importable, "Exception", <<>>,
         (D_root :> <<S_init, S_test_function, S_test_class>>))

PackageTreeWithBadModule(importable, raises) ==
    Tree(<<"pkg">>, importable, raises, <<>>,
         (D_root :> <<S_init, S_test_function, S_test_bad, S_test_class>>))

\* a plain directory of test files
FlatTree(raises) ==
    Tree(<<"all">>, FALSE, raises, <<>>,
         (D_root :> <<S_test_order, S_test_bad, S_helper, S_test_function>>))

\* a plain directory whose test files are in sub-directories
NestedTree ==
    Tree(<<"all">>, FALSE, "Exception",
         <<D_tests, D_alpha_1, D_zeta, D_tests_alpha_1>>,
         (D_root :> <<S_helper>>) @@ (D_tests :> <<S_test_function>>)
            @@ (D_alpha_1 :> <<S_test_class>>) @@ (D_zeta :> <<>>)
            @@ (D_tests_alpha_1 :> <<S_test_class>>))

Trees ==
    {PackageTree(b) : b \in BOOLEAN}
        \cup {PackageTreeWithBadModule(b, e) : b \in BOOLEAN, e \in LoadErrors}
        \cup {FlatTree(e) : e \in LoadErrors}
        \cup {NestedTree}

\* Path.exists() and Path.is_dir()
IsDir(tree, path) == path \in DOMAIN tree.listing

\* (directory / name).exists() for a file name
HasFile(tree, dir, name) ==
    IsDir(tree, dir) /\ \E k \in 1..Len(tree.listing[dir]) : tree.listing[dir][k] = name

\* Path(directory) relative to the root: its components
PathOf(directory) == Split(directory, "/")

\* base_dir.glob(pattern) restricted to directories, base_dir the root
GlobDirs(tree, pattern) ==
    LET comps == PathOf(pattern) IN
    SelectSeq(tree.subdirs,
        LAMBDA d : /\ Len(d) = Len(comps)
                   /\ \A k \in 1..Len(d) : fnmatch(d[k], comps[k]))

RECURSIVE InsertByLine(_, _)
InsertByLine(x, s) ==
    IF s = <<>> THEN <<x>>
    ELSE IF x.line < Head(s).line THEN <<x>> \o s
    ELSE <<Head(s)>> \o InsertByLine(x, Tail(s))

RECURSIVE SortByLine(_)
\* list.sort(key=line number), stable
SortByLine(s) ==
    IF s = <<>> THEN <<>>
    ELSE InsertByLine(s[Len(s)], SortByLine(SubSeq(s, 1, Len(s) - 1)))

RECURSIVE InsertByName(_, _)
InsertByName(x, s) ==
    IF s = <<>> THEN <<x>>
    ELSE IF StrLess(x[1], Head(s)[1]) THEN <<x>> \o s
    ELSE <<Head(s)>> \o InsertByName(x, Tail(s))

RECURSIVE SortByName(_)
\* list.sort(key=lambda x: x[0]), stable
SortByName(s) ==
    IF s = <<>> THEN <<>>
    ELSE InsertByName(s[Len(s)], SortByName(SubSeq(s, 1, Len(s) - 1)))

(* The loader: sys.modules and the number of times the top-level code of  *)
(* each file has been executed.                                            *)

NoModules == [sys_modules |-> {}, exec_count |-> [f \in Files |-> 0]]

\* the exception the top-level code of the file raises, "none" if it runs
\* to its end
Raises(tree, file) ==
    IF ModuleSource(file).raise_line = 0 THEN "none" ELSE tree.raises

\* spec.loader.exec_module(module)
ExecModule(st, file) ==
    [st EXCEPT !.exec_count[file] = @ + 1]

\* sys.modules[import_name] = module
SetModule(st, import_name, file, partial) ==
    [st EXCEPT !.sys_modules =
        {m \in @ : m.name # import_name}
            \cup {[name |-> import_name, file |-> file, partial |-> partial]}]

InSysModules(st, import_name) ==
    \E m \in st.sys_modules : m.name = import_name

SysModule(st, import_name) ==
    CHOOSE m \in st.sys_modules : m.name = import_name

\* what a load gives back: the exception it raised or the module object
Loaded(raised, file, partial, st) ==
    [raised |-> raised, file |-> file, partial |-> partial, st |-> st]

\* _import_module_from_file: the module is entered in sys.modules before it
\* is executed and stays there when its execution raises
_import_module_from_file(tree, st, import_name, file) ==
    LET raised == Raises(tree, file) IN
    Loaded(raised, file, raised # "none",
           ExecModule(SetModule(st, import_name, file, raised # "none"), file))

\* importlib: the parent package is imported first, its __init__.py run once
ImportParent(tree, st) ==
    IF InSysModules(st, tree.name) THEN st
    ELSE ExecModule(SetModule(st, tree.name, S_init, FALSE), S_init)

\* importlib: the module is executed; it stays in sys.modules only when its
\* execution did not raise
ImportChild(st1, import_name, file, raised) ==
    IF raised = "none"
    THEN Loaded("none", file, FALSE,
                ExecModule(SetModule(st1, import_name, file, FALSE), file))
    ELSE Loaded(raised, file, FALSE, ExecModule(st1, file))

\* importlib.import_module(import_name) for a module of the root package
import_module(tree, st, import_name, file) ==
    IF InSysModules(st, import_name)
    THEN Loaded("none", file, SysModule(st, import_name).partial, st)
    ELSE IF ~tree.importable
    THEN Loaded("ImportError", file, FALSE, st)
    ELSE ImportChild(ImportParent(tree, st), import_name, file, Raises(tree, file))

\* _import_test_module lines 259-261: fall back to the file on ImportError
FallBack(tree, m, import_name, file) ==
    IF m.raised = "ImportError"
    THEN _import_module_from_file(tree, m.st, import_name, file)
    ELSE m

\* _import_test_module
_import_test_module(tree, st, package_dir, import_name, file) ==
    IF package_dir # <<None>>
    THEN FallBack(tree, import_module(tree, st, import_name, file), import_name, file)
    ELSE _import_module_from_file(tree, st, import_name, file)

\* module.__dict__.items(): the names the executed statements have bound
ModuleDict(tree, module) ==
    LET src == ModuleSource(module.file) IN
    IF module.partial
    THEN SelectSeq(src.decls, LAMBDA d : d.line < src.raise_line)
    ELSE src.decls

(* The extractor.  A discovered test is the pair <<test_name, test_item>>; *)
(* the item keeps the file and the line of the function object.            *)

TestPrefix == <<"test_">>

ClassItem(class_full_name, file, method) ==
    [kind |-> "class", class_name |-> class_full_name, file |-> file,
     name |-> method.name, line |-> method.line]

FunctionItem(file, function) ==
    [kind |-> "func", class_name |-> <<>>, file |-> file,
     name |-> function.name, line |-> function.line]

\* _find_test_methods_in_class
_find_test_methods_in_class(file, class_obj, class_full_name, method_or_wildcard) ==
    LET is_test(m) ==
            /\ _check_wildcard_match(method_or_wildcard, m.name)
            /\ (m.tagged \/ StartsWith(m.name, TestPrefix))
            /\ m.async
        class_method_tests == SortByLine(SelectSeq(class_obj.methods, is_test))
    IN [k \in 1..Len(class_method_tests) |->
            <<class_full_name \o <<".">> \o class_method_tests[k].name,
              ClassItem(class_full_name, file, class_method_tests[k])>>]

RECURSIVE ClassTestsOf(_, _, _, _)
ClassTestsOf(file, decls, rel_module, method_or_wildcard) ==
    IF decls = <<>> THEN <<>>
    ELSE LET d == Head(decls) IN
         (IF d.kind = "class" /\ (StartsWith(d.name, <<"Test">>) \/ d.tagged)
          THEN _find_test_methods_in_class(file, d,
                    rel_module \o <<".">> \o d.name, method_or_wildcard)
          ELSE <<>>)
            \o ClassTestsOf(file, Tail(decls), rel_module, method_or_wildcard)

\* _find_test_classes
_find_test_classes(tree, module, rel_module, method_or_wildcard) ==
    ClassTestsOf(module.file, ModuleDict(tree, module), rel_module,
                 method_or_wildcard)

\* _find_standalone_test_functions without the coroutine check of line 386
_find_standalone_test_functions_AnyCallable(tree, module, rel_module, method_or_wildcard) ==
    LET is_test(d) ==
            /\ _check_wildcard_match(method_or_wildcard, d.name)
            /\ (d.tagged \/ StartsWith(d.name, TestPrefix))
            /\ d.kind = "func"
        function_tests == SortByLine(SelectSeq(ModuleDict(tree, module), is_test))
    IN [k \in 1..Len(function_tests) |->
            <<rel_module \o <<".">> \o function_tests[k].name,
              FunctionItem(module.file, function_tests[k])>>]

\* _find_standalone_test_functions
_find_standalone_test_functions(tree, module, rel_module, method_or_wildcard) ==
    LET is_test(d) ==
            /\ _check_wildcard_match(method_or_wildcard, d.name)
            /\ (d.tagged \/ StartsWith(d.name, TestPrefix))
            /\ d.kind = "func"
            /\ d.async
        function_tests == SortByLine(SelectSeq(ModuleDict(tree, module), is_test))
    IN [k \in 1..Len(function_tests) |->
            <<rel_module \o <<".">> \o function_tests[k].name,
              FunctionItem(module.file, function_tests[k])>>]

\* the outcome of looking into one file
Found(raised, found, st) == [raised |-> raised, found |-> found, st |-> st]

\* _find_tests_in_module lines 427-448: the tests of the imported module
TestsOfModule(tree, module, rel_module, method_or_wildcard) ==
    IF module.raised # "none" THEN Found(module.raised, <<>>, module.st)
    ELSE Found("none",
            _find_test_classes(tree, module, rel_module, method_or_wildcard)
                \o _find_standalone_test_functions(tree, module, rel_module, method_or_wildcard),
            module.st)

\* _find_tests_in_module
_find_tests_in_module(tree, st, package_dir, import_name, test_file, method_or_wildcard) ==
    TestsOfModule(tree,
        _import_test_module(tree, st, package_dir, import_name, test_file),
        Stem(test_file), method_or_wildcard)

(* From a specifier to the tests: directories, files, modules.            *)

\* _add_test_directory
_add_test_directory(tree, directory_path, found) ==
    IF IsDir(tree, directory_path)
    THEN [package_dirs |->
              IF HasFile(tree, directory_path, S_init)
              THEN Append(found.package_dirs, directory_path)
              ELSE found.package_dirs,
          search_dirs |-> Append(found.search_dirs, directory_path)]
    ELSE found

RECURSIVE AddEach(_, _, _)
AddEach(tree, dirs, found) ==
    IF dirs = <<>> THEN found
    ELSE AddEach(tree, Tail(dirs), _add_test_directory(tree, Head(dirs), found))

\* _find_matching_directories
_find_matching_directories(tree, pattern, found) ==
    IF Contains(pattern, "*")
    THEN AddEach(tree, GlobDirs(tree, pattern), found)
    ELSE found

\* _handle_package_directory
_handle_package_directory(tree, directory) ==
    LET found == [package_dirs |-> <<D_root>>, search_dirs |-> <<>>] IN
    IF Truthy(directory)
    THEN LET subdir == PathOf(directory) IN
         IF IsDir(tree, subdir)
         THEN _add_test_directory(tree, subdir, found)
         ELSE _find_matching_directories(tree, directory, found)
    ELSE [found EXCEPT !.search_dirs = <<D_root>>]

\* _handle_non_package_directory
_handle_non_package_directory(tree, directory) ==
    IF Truthy(directory)
    THEN LET subdir == PathOf(directory) IN
         IF IsDir(tree, subdir)
         THEN [package_dirs |-> <<>>, search_dirs |-> <<subdir>>]
         ELSE IF Contains(directory, "*")
         THEN [package_dirs |-> <<>>, search_dirs |-> GlobDirs(tree, directory)]
         ELSE [package_dirs |-> <<>>, search_dirs |-> <<>>]
    ELSE [package_dirs |-> <<>>, search_dirs |-> <<D_root>>]

\* _find_test_packages
_find_test_packages(tree, directory) ==
    IF HasFile(tree, D_root, S_init)
    THEN _handle_package_directory(tree, directory)
    ELSE _handle_non_package_directory(tree, directory)

\* the files of one search directory that _find_test_files takes
FilesIn(tree, file, test_dir) ==
    LET listing == tree.listing[test_dir]
        chosen ==
            IF Truthy(file)
            THEN IF Contains(file, "*")
                 THEN SelectSeq(listing,
                        LAMBDA n : fnmatch(n, file) /\ EndsWith(n, DotPy))
                 ELSE LET file_with_ext ==
                              IF EndsWith(file, DotPy) THEN file ELSE file \o DotPy
                      IN IF HasFile(tree, test_dir, file_with_ext)
                         THEN <<file_with_ext>> ELSE <<>>
            ELSE SelectSeq(listing,
                    LAMBDA n : /\ EndsWith(n, DotPy)
                               /\ \/ StartsWith(n, TestPrefix)
                                  \/ EndsWith(n, <<"_test", ".", "py">>))
    IN [k \in 1..Len(chosen) |-> <<test_dir, chosen[k]>>]

RECURSIVE _find_test_files(_, _, _)
\* _find_test_files
_find_test_files(tree, file, search_dirs) ==
    IF search_dirs = <<>> THEN <<>>
    ELSE FilesIn(tree, file, Head(search_dirs))
            \o _find_test_files(tree, file, Tail(search_dirs))

\* test_dir.is_relative_to(pkg_dir)
IsRelativeTo(test_dir, pkg_dir) == StartsWith(test_dir, pkg_dir)

RECURSIVE ClosestFrom(_, _, _)
ClosestFrom(test_dir, package_dirs, closest_package) ==
    IF package_dirs = <<>> THEN closest_package
    ELSE LET pkg_dir == Head(package_dirs) IN
         ClosestFrom(test_dir, Tail(package_dirs),
            IF /\ IsRelativeTo(test_dir, pkg_dir)
               /\ \/ closest_package = <<None>>
                  \/ Len(test_dir) - Len(pkg_dir) < Len(test_dir) - Len(closest_package)
            THEN pkg_dir ELSE closest_package)

\* _find_closest_package_dir
_find_closest_package_dir(test_dir, package_dirs) ==
    ClosestFrom(test_dir, package_dirs, <<None>>)

\* Path.name
NameOf(tree, dir) == IF dir = D_root THEN tree.name ELSE dir[Len(dir)]

\* _create_import_name
_create_import_name(tree, test_dir, test_file, closest_package) ==
    IF closest_package # <<None>>
    THEN [import_name |->
              JoinWith(<<NameOf(tree, closest_package)>>
                        \o SubSeq(test_dir, Len(closest_package) + 1, Len(test_dir))
                        \o <<Stem(test_file)>>, "."),
          package_dir |-> closest_package]
    ELSE [import_name |-> Stem(test_file), package_dir |-> <<None>>]

\* the import name _process_test_files computes for one file
ImportNameOf(tree, test_dir, test_file, package_dirs) ==
    IF package_dirs # <<>>
    THEN _create_import_name(tree, test_dir, test_file,
                             _find_closest_package_dir(test_dir, package_dirs))
    ELSE [import_name |-> Stem(test_file), package_dir |-> <<None>>]

\* the outcome of _process_test_files: the tests, the files whose import
\* raised, and the exception that left the function ("none": it returned)
Processed(raised, found, failed, st) ==
    [raised |-> raised, found |-> found, failed |-> failed, st |-> st]

\* _process_test_files lines 836-840 without the try / except: the exception
\* of a file leaves the loop
TryFile_Unguarded(path, one, rest) ==
    IF one.raised # "none"
    THEN Processed(one.raised, <<>>, {path}, one.st)
    ELSE Processed(rest.raised, one.found \o rest.found, rest.failed, rest.st)

\* _process_test_files lines 836-840: the tests of one file are taken, an
\* exception of the file is logged, and the loop goes on with the rest
TryFile(path, one, rest) ==
    IF one.raised # "none"
    THEN Processed(rest.raised, rest.found, {path} \cup rest.failed, rest.st)
    ELSE Processed(rest.raised, one.found \o rest.found, rest.failed, rest.st)

\* _process_test_files lines 822-837: the import name, then the module
FindNamed(tree, st, name, test_file, method) ==
    _find_tests_in_module(tree, st, name.package_dir, name.import_name,
                          test_file, method)

RECURSIVE _process_test_files(_, _, _, _, _)

\* one iteration of the loop of _process_test_files, then the next ones
ProcessFrom(tree, path, more, package_dirs, method, one) ==
    TryFile(path, one,
            _process_test_files(tree, one.st, more, package_dirs, method))

\* _process_test_files
_process_test_files(tree, st, test_file_paths, package_dirs, method) ==
    IF test_file_paths = <<>> THEN Processed("none", <<>>, {}, st)
    ELSE ProcessFrom(tree, Head(test_file_paths), Tail(test_file_paths),
            package_dirs, method,
            FindNamed(tree, st,
                ImportNameOf(tree, Head(test_file_paths)[1],
                             Head(test_file_paths)[2], package_dirs),
                Head(test_file_paths)[2], method))

\* the outcome of one call of discover_tests_from_specifier
Discovered(kind, value, files, failed, st) ==
    [kind |-> kind, value |-> value, files |-> files, failed |-> failed,
     st |-> st]

\* discover_tests_from_specifier lines 881-886
SortDiscovered(test_file_paths, processed) ==
    IF processed.raised # "none"
    THEN Discovered(processed.raised, <<>>, test_file_paths, processed.failed,
                    processed.st)
    ELSE Discovered("ok", SortByName(processed.found), test_file_paths,
                    processed.failed, processed.st)

\* discover_tests_from_specifier lines 875-882 without the raise of line 879
DiscoverInFiles_EmptyList(tree, st, method, package_dirs, test_file_paths) ==
    IF test_file_paths = <<>>
    THEN Discovered("ok", <<>>, <<>>, {}, st)
    ELSE SortDiscovered(test_file_paths,
            _process_test_files(tree, st, test_file_paths, package_dirs, method))

\* discover_tests_from_specifier lines 875-882
DiscoverInFiles(tree, st, method, package_dirs, test_file_paths) ==
    IF test_file_paths = <<>>
    THEN Discovered("NoTestFilesFoundError", <<>>, <<>>, {}, st)
    ELSE SortDiscovered(test_file_paths,
            _process_test_files(tree, st, test_file_paths, package_dirs, method))

\* discover_tests_from_specifier lines 868-876
DiscoverInDirs(tree, st, parsed, dirs) ==
    IF dirs.search_dirs = <<>>
    THEN Discovered("NoTestFilesFoundError", <<>>, <<>>, {}, st)
    ELSE DiscoverInFiles(tree, st, parsed.method, dirs.package_dirs,
            _find_test_files(tree, parsed.file, dirs.search_dirs))

\* discover_tests_from_specifier lines 857-869
DiscoverParsed(tree, st, parsed) ==
    DiscoverInDirs(tree, st, parsed, _find_test_packages(tree, parsed.directory))

\* discover_tests_from_specifier, the current directory the root of the tree
discover_tests_from_specifier(tree, st, specifier) ==
    DiscoverParsed(tree, st,
        IF Truthy(specifier) THEN _parse_test_specifier(specifier)
        ELSE [directory |-> None, file |-> None, method |-> None])

-----------------------------------------------------------------------------
(* TestRunner.discover_tests over a list of specifiers                     *)

MaxSpecs == 2      \* longest list handed to discover_tests

\* "" (everything under the current directory), "*_1", "test_function",
\* "test_function.test_function_1", "test_order.test_*", "tests",
\* "nodir/test_function", "test_function.py", "tests/test_function.py",
\* "tests/alpha_1", "all" (the default of the command line), "zeta"
Specifiers ==
    { <<>>,
      <<"*", "_1">>,
      <<"test_", "function">>,
      <<"test_", "function", ".", "test_", "function", "_1">>,
      <<"test_", "order", ".", "test_", "*">>,
      <<"tests">>,
      <<"nodir", "/", "test_", "function">>,
      <<"test_", "function", ".", "py">>,
      <<"tests", "/", "test_", "function", ".", "py">>,
      <<"tests", "/", "alpha", "_1">>,
      <<"all">>,
      <<"zeta">> }

SpecifierLists == UNION { [1..n -> Specifiers] : n \in 0..MaxSpecs }

\* a process started in one of the directory trees, nothing imported yet
InitD ==
    /\ IdleRunner
    /\ NoSelection
    /\ NoCliRun
    /\ NoLookup
    /\ NoManager
    /\ cwd \in Trees
    /\ loader = NoModules
    /\ dpc = "idle"
    /\ test_specifiers = <<>>
    /\ spec_i = 0
    /\ all_tests = <<>>
    /\ outcomes = <<>>
    /\ discovery_error = "none"

\* discover_tests is called with a list of specifiers (lines 31-40)
DiscoverTests(specifiers) ==
    /\ dpc = "idle"
    /\ test_specifiers' = specifiers
    /\ spec_i' = 1
    /\ all_tests' = <<>>
    /\ dpc' = "loop"
    /\ UNCHANGED <<cwd, loader, outcomes, discovery_error>>
    /\ UNCHANGED not_dvars

\* the call of line 42 for the specifier the loop is at
Call == discover_tests_from_specifier(cwd, loader, test_specifiers[spec_i])

\* line 42: the call returns a list and tests.extend takes it
DiscoverSpecifier_Extend ==
    /\ dpc = "loop"
    /\ spec_i <= Len(test_specifiers)
    /\ Call.kind = "ok"
    /\ all_tests' = all_tests \o Call.value
    /\ loader' = Call.st
    /\ outcomes' = Append(outcomes, Call)
    /\ spec_i' = spec_i + 1
    /\ UNCHANGED <<cwd, dpc, test_specifiers, discovery_error>>
    /\ UNCHANGED not_dvars

\* line 42: the call raises; discover_tests has no handler
DiscoverSpecifier_Raise ==
    /\ dpc = "loop"
    /\ spec_i <= Len(test_specifiers)
    /\ Call.kind # "ok"
    /\ discovery_error' = Call.kind
    /\ loader' = Call.st
    /\ outcomes' = Append(outcomes, Call)
    /\ dpc' = "raised"
    /\ UNCHANGED <<cwd, test_specifiers, spec_i, all_tests>>
    /\ UNCHANGED not_dvars

\* line 43: the loop is over, the list is returned
DiscoverTests_Return ==
    /\ dpc = "loop"
    /\ spec_i > Len(test_specifiers)
    /\ dpc' = "done"
    /\ UNCHANGED <<cwd, loader, test_specifiers, spec_i, all_tests, outcomes,
                   discovery_error>>
    /\ UNCHANGED not_dvars

NextD ==
    \/ \E l \in SpecifierLists : DiscoverTests(l)
    \/ DiscoverSpecifier_Extend
    \/ DiscoverSpecifier_Raise
    \/ DiscoverTests_Return

SpecD == InitD /\ [][NextD]_vars

-----------------------------------------------------------------------------
(* Properties of the life-cycle engine *)

Count(seq, x) == Cardinality({ i \in 1..Len(seq) : seq[i] = x })

Has(seq, x) == \E i \in 1..Len(seq) : seq[i] = x

CurKey == _get_test_description(Cur.name, Cur)

\* run_test is about to hand control back to run_tests, by return or by raise
RunTestEnds == pc \in {"return", "propagate"}

\* run_tests has handed control back, by return or by raise
BatchEnded == pc \in {"done", "raised"}

Running == { k \in Keys : test_results[k].status = "RUNNING" }

\* C1: when run_test ends for a class test whose instance was constructed
\* (and which has a tearDown), tearDown has been invoked exactly once,
\* whatever setUp and the test method did.
C1_TearDownWheneverConstructed ==
    (RunTestEnds /\ rc_instance = "inst" /\ Cur.hasTearDown)
        => Count(calls, "tearDown") = 1

\* C2: when setUp of a class test raised a generic exception, the method was
\* never invoked, the result is ERROR with the exception text, and tearDown
\* was attempted on the constructed instance.
C2_SetUpErrorStillTearsDown ==
    (pc = "return" /\ caught.origin = "setUp" /\ caught.kind = "Exception")
        => /\ ~Has(calls, "method")
           /\ result = [status |-> "ERROR", message |-> caught.text]
           /\ Cur.hasTearDown => Has(calls, "tearDown")

\* C3: when run_tests ends, every test of the list has been handed to
\* run_test, unless an interrupt or a failure of unsubscribe_all left
\* run_test: an exception of setUp, of the test body or of tearDown never
\* keeps the later tests from running.
C3_FailuresDoNotStopBatch ==
    BatchEnded =>
        \/ Len(called) = Len(tests)
        \/ escaped.kind = "Interrupt"
        \/ escaped.origin = "unsubscribe_all"

\* C3 witness: a finished batch whose first test ended FAIL and whose second
\* test ran afterwards and passed.
C3_Witness ==
    /\ pc = "done"
    /\ Len(tests) = 2
    /\ Len(called) = 2
    /\ first_result[tests[1].name].status = "FAIL"
    /\ _get_test_description(tests[1].name, tests[1]) # CurKey
    /\ idx = 2
    /\ calls # <<>>
    /\ result.status = "PASS"

\* C4 (as claimed): whenever run_test returns the recorded status is PASS,
\* FAIL, ERROR or SKIP, and a recorded terminal status never changes again.
C4_TerminalIsFinal ==
    /\ [](pc = "return" =>
            /\ result.status \in TerminalStatuses
            /\ calls # <<>> => test_results[CurKey].status \in TerminalStatuses)
    /\ [][\A k \in Keys :
            test_results[k].status \in TerminalStatuses
                => test_results'[k].status = test_results[k].status]_vars

\* C5: when run_test returns from an executed test, the result is determined
\* by how the try block ended: normally -> PASS; TestFailure or
\* AssertionError -> FAIL; TestSkip -> SKIP; TestException -> the status it
\* carries; TimeoutError or any other exception -> ERROR; the message is the
\* exception text.
C5_StatusFromOutcome ==
    (pc = "return" /\ calls # <<>>) =>
        /\ result.status =
              CASE caught = NoExc -> "PASS"
                [] caught.kind \in {"TestFailure", "AssertionError"} -> "FAIL"
                [] caught.kind = "TestSkip" -> "SKIP"
                [] caught.kind = "TestException" -> caught.status
                [] caught.kind = "TimeoutError" -> "ERROR"
                [] OTHER -> "ERROR"
        /\ result.message = caught.text
        /\ test_results[CurKey] = result

\* C5 witness: a test whose body timed out returns ERROR.
C5_Witness ==
    /\ pc = "return"
    /\ caught.kind = "TimeoutError"
    /\ caught.origin \in {"method", "test_func"}
    /\ result.status = "ERROR"

\* C6 (as claimed): a run_test call for a name whose earlier call returned
\* gives back that earlier result and runs nothing.
C6_SecondCallReturnsFirstResult ==
    (pc = "return" /\ first_result[Cur.name] # NoResult)
        => /\ result = first_result[Cur.name]
           /\ calls = <<>>

\* C7: run_test is called with the tests in list order, at most one result is
\* RUNNING at any time, and a test is only started when the call for the test
\* before it is over: its result is final, and unsubscribe_all (preceded by
\* tearDown when that is due) was its last call.
C7_SequentialInOrder ==
    /\ [](/\ idx = Len(called)
          /\ Len(called) <= Len(tests)
          /\ \A i \in 1..Len(called) : called[i] = tests[i].name
          /\ Cardinality(Running) <= 1)
    /\ [][Len(called') > Len(called) =>
            /\ pc = "loop"
            /\ Running = {}
            /\ called # <<>> =>
                  \/ calls = <<>>
                  \/ /\ Count(calls, "end_test") = 1
                     /\ calls[Len(calls)] = "unsubscribe_all"]_vars

\* C7 witness: the second test of a list is in its body while the first one,
\* a different test, has a final result.
C7_Witness ==
    /\ pc = "method"
    /\ idx = 2
    /\ called = <<tests[1].name, tests[2].name>>
    /\ tests[1].name # tests[2].name
    /\ Running = {CurKey}
    /\ first_result[tests[1].name].status \in TerminalStatuses

\* C8: cleanup_tasks has been called exactly once when run_tests ends, by
\* return or by raise, and not at all while the tests of the batch run.
C8_CleanupOncePerBatch ==
    /\ BatchEnded => cleanups = 1
    /\ pc \in {"loop", "try", "setUp", "method", "pass", "except", "finally",
               "unsubscribe", "return", "propagate", "batch_finally"}
          => cleanups = 0

\* C8 witness: run_tests ended by an interrupt raised in a test, after cleanup.
C8_Witness ==
    /\ pc = "raised"
    /\ escaped.kind = "Interrupt"
    /\ cleanups = 1

\* C9: when run_test ends for a test it executed, unsubscribe_all has been
\* called exactly once and it was the last call, after tearDown.
C9_UnsubscribeOncePerTest ==
    (RunTestEnds /\ calls # <<>>) =>
        /\ Count(calls, "unsubscribe_all") = 1
        /\ calls[Len(calls)] = "unsubscribe_all"

\* C9 witness: a class test returns after a tearDown that raised, with
\* unsubscribe_all called after it.
C9_Witness ==
    /\ pc = "return"
    /\ swallowed # NoExc
    /\ Len(calls) >= 2
    /\ calls[Len(calls) - 1] = "tearDown"
    /\ calls[Len(calls)] = "unsubscribe_all"

\* C10 (as claimed): an exception of unsubscribe_all never leaves run_test:
\* run_test returns the result and run_tests carries on.
C10_UnsubscribeFailureNotRaised ==
    exc.origin = "unsubscribe_all" => pc \notin {"propagate", "batch_finally", "raised"}

IndexOf(seq, x) == CHOOSE i \in 1..Len(seq) : seq[i] = x

\* C11: an exception raised by tearDown is dropped: it is never the exception
\* in flight, the recorded result stays the one end_test returned, run_test
\* only raises if unsubscribe_all does, and unsubscribe_all is its last call.
C11_TearDownErrorSwallowed ==
    swallowed # NoExc =>
        /\ exc.origin # "tearDown"
        /\ escaped.origin # "tearDown"
        /\ test_results[CurKey] = result
        /\ pc = "propagate" => exc.origin = "unsubscribe_all"
        /\ RunTestEnds => calls[Len(calls)] = "unsubscribe_all"

\* C11 witness: run_test returns PASS after a tearDown that raised.
C11_Witness ==
    /\ pc = "return"
    /\ swallowed.origin = "tearDown"
    /\ result = [status |-> "PASS", message |-> ""]
    /\ test_results[CurKey] = result
    /\ calls[Len(calls)] = "unsubscribe_all"

\* C12 (as claimed): for every executed test start_test and end_test have
\* each been called exactly once when run_test ends, start_test first and
\* end_test after the test code.
C12_StartAndEndExactlyOnce ==
    (RunTestEnds /\ calls # <<>>) =>
        /\ Count(calls, "start_test") = 1
        /\ calls[1] = "start_test"
        /\ Count(calls, "end_test") = 1
        /\ \A i \in 1..Len(calls) :
              calls[i] \in {"construct", "setUp", "method", "test_func"}
                  => i < IndexOf(calls, "end_test")

\* C12 (amended): start_test is called exactly once and first; end_test is
\* called exactly once, after the test code, unless the test code was ended by
\* an interrupt (BaseException): then end_test is not called and the result
\* stays RUNNING.
C12_StartOnceEndOnceUnlessInterrupted ==
    (RunTestEnds /\ calls # <<>>) =>
        /\ Count(calls, "start_test") = 1
        /\ calls[1] = "start_test"
        /\ IF caught.kind = "Interrupt"
           THEN /\ Count(calls, "end_test") = 0
                /\ test_results[CurKey].status = "RUNNING"
           ELSE /\ Count(calls, "end_test") = 1
                /\ \A i \in 1..Len(calls) :
                      calls[i] \in {"construct", "setUp", "method", "test_func"}
                          => i < IndexOf(calls, "end_test")

\* C12 witness: a passing class test went through every call once, in order.
C12_Witness ==
    /\ pc = "return"
    /\ calls = <<"start_test", "construct", "setUp", "method", "end_test",
                 "tearDown", "unsubscribe_all">>

\* C13 (as claimed): when run_tests ends after an interrupt raised in setUp
\* or in the method of a class test (with a tearDown), that tearDown was
\* invoked and cleanup_tasks has run.
C13_InterruptStillTearsDown ==
    (BatchEnded /\ caught.kind = "Interrupt" /\ rc_instance = "inst"
        /\ Cur.hasTearDown)
        => /\ Has(calls, "tearDown")
           /\ cleanups = 1

\* C14 (as claimed): run_tests hands a summary back whenever tests fail or
\* error: it only ends by raising when a test was interrupted.
C14_AlwaysSummary ==
    pc = "raised" => escaped.kind = "Interrupt"

-----------------------------------------------------------------------------
(* Properties of test discovery, checked under SpecD *)

\* the discover_tests_from_specifier calls that returned a list
Returned == { k \in 1..Len(outcomes) : outcomes[k].kind = "ok" }

\* the module names of the files a call looked into
ModuleNames(o) == { Stem(o.files[k][2]) : k \in 1..Len(o.files) }

\* C15: the list discover_tests_from_specifier returns has one entry per
\* discovered module: the first component of every entry is a module name,
\* and the entries are in strictly ascending order of that name.
C15_GroupedByModule ==
    \A k \in Returned :
        LET v == outcomes[k].value IN
        /\ \A i \in 1..Len(v) : v[i][1] \in ModuleNames(outcomes[k])
        /\ \A i, j \in 1..Len(v) : i < j => StrLess(v[i][1], v[j][1])

\* C16: in the list discover_tests_from_specifier returns, among the tests
\* of one file no standalone function comes before a class method, and two
\* tests of the same group come in the order of their source lines.
C16_ClassesFirstThenDeclarationOrder ==
    \A k \in Returned :
        LET v == outcomes[k].value IN
        \A i, j \in 1..Len(v) :
            (i < j /\ v[i][2].file = v[j][2].file) =>
                /\ ~(v[i][2].kind = "func" /\ v[j][2].kind = "class")
                /\ v[i][2].kind = v[j][2].kind => v[i][2].line < v[j][2].line

\* C17: however often a module that imports without error is loaded in one
\* run, the top-level code of its file is executed at most once.
C17_TopLevelCodeRunsOnce ==
    dpc # "off" =>
        \A f \in Files :
            ModuleSource(f).raise_line = 0 => loader.exec_count[f] <= 1

\* the method pattern of the k-th specifier of the list
MethodOf(k) ==
    IF Truthy(test_specifiers[k])
    THEN _parse_test_specifier(test_specifiers[k]).method
    ELSE None

\* the names of the tests a file declares: the asynchronous test_ functions
\* and the asynchronous test_ methods of its Test classes
DeclaredTests(file) ==
    LET decls == ModuleSource(file).decls
        tops == { decls[i] : i \in 1..Len(decls) }
    IN { Stem(file) \o <<".">> \o d.name :
            d \in { t \in tops : t.kind = "func" /\ t.async
                        /\ (t.tagged \/ StartsWith(t.name, TestPrefix)) } }
       \cup UNION { { Stem(file) \o <<".">> \o c.name \o <<".">> \o c.methods[i].name :
                        i \in { h \in 1..Len(c.methods) :
                                    /\ c.methods[h].async
                                    /\ \/ c.methods[h].tagged
                                       \/ StartsWith(c.methods[h].name, TestPrefix) } } :
                    c \in { t \in tops : t.kind = "class"
                            /\ (t.tagged \/ StartsWith(t.name, <<"Test">>)) } }

\* the last component of a test name
LastName(test_name) ==
    LET parts == Split(test_name, ".") IN parts[Len(parts)]

\* the test names of a returned list
NamesOf(v) == { v[i][1] : i \in 1..Len(v) }

\* C18: a call that found candidate files returns a list whatever the
\* imports raise; the list holds no test of a file whose import raised in
\* the call, and it holds every test (matching the method pattern) of every
\* other candidate file whose code imports without error.
C18_LoadFailureIsolated ==
    \A k \in 1..Len(outcomes) :
        LET o == outcomes[k] IN
        /\ o.kind \in {"ok", "NoTestFilesFoundError"}
        /\ o.files # <<>> => o.kind = "ok"
        /\ \A n \in 1..Len(o.files) :
            LET file == o.files[n][2] IN
            IF o.files[n] \in o.failed
            THEN \A i \in 1..Len(o.value) : o.value[i][2].file # file
            ELSE ModuleSource(file).raise_line = 0 =>
                    \A t \in DeclaredTests(file) :
                        _check_wildcard_match(MethodOf(k), LastName(t)) =>
                            t \in NamesOf(o.value)

\* a call in which the import of a file raised and which returned tests of a
\* file before it and of a file after it in the file list
C18_Witness ==
    \E k \in Returned :
        LET o == outcomes[k] IN
        \E a, b, c \in 1..Len(o.files) :
            /\ a < b /\ b < c
            /\ o.files[b] \in o.failed
            /\ \E i \in 1..Len(o.value) : o.value[i][2].file = o.files[a][2]
            /\ \E i \in 1..Len(o.value) : o.value[i][2].file = o.files[c][2]

\* what the k-th specifier of the list gives when it is discovered alone
Alone(k) == discover_tests_from_specifier(cwd, NoModules, test_specifiers[k])

\* C19: when discover_tests has ended, the tests of every specifier of the
\* list that resolves to tests are in the list it built, whatever the other
\* specifiers of the list resolve to.
C19_FailingSpecifierDoesNotAbort ==
    dpc \in {"done", "raised"} =>
        \A k \in 1..Len(test_specifiers) :
            Alone(k).kind = "ok" =>
                NamesOf(Alone(k).value) \subseteq NamesOf(all_tests)

\* the test files directly under the current directory
RootTestFiles ==
    { f \in Files : HasFile(cwd, D_root, f) /\ StartsWith(f, TestPrefix) }

\* C20: for the specifier "*_1" in a directory that holds test files, the
\* call returns exactly the tests of these files whose function or method
\* name matches "*_1" (test_function.test_function_1 and
\* test_class.TestClass.test_method_1 for test_function.py and test_class.py).
C20_MethodWildcardOnly ==
    \A k \in 1..Len(outcomes) :
        (test_specifiers[k] = <<"*", "_1">> /\ RootTestFiles # {}) =>
            /\ outcomes[k].kind = "ok"
            /\ NamesOf(outcomes[k].value) =
                { t \in UNION { DeclaredTests(f) :
                        f \in { g \in RootTestFiles : ModuleSource(g).raise_line = 0 } } :
                    fnmatch(LastName(t), <<"*", "_1">>) }

\* the conventionally named test files of a directory
TestFilesIn(dir) ==
    { f \in Files :
        /\ HasFile(cwd, dir, f)
        /\ StartsWith(f, TestPrefix) \/ EndsWith(f, <<"_test", ".", "py">>) }

\* the tests of the test files of a directory whose code imports without error
TestsIn(dir) ==
    UNION { DeclaredTests(f) :
                f \in { g \in TestFilesIn(dir) : ModuleSource(g).raise_line = 0 } }

\* C21: for the specifier "test_function", the bare name of the module
\* test_function.py of the current directory, the call returns exactly the
\* tests of test_function.py.
C21_BareModuleName ==
    \A k \in 1..Len(outcomes) :
        (/\ test_specifiers[k] = <<"test_", "function">>
         /\ HasFile(cwd, D_root, S_test_function)) =>
            /\ outcomes[k].kind = "ok"
            /\ NamesOf(outcomes[k].value) = DeclaredTests(S_test_function)

\* C22: for the specifiers "test_function.py" and "tests/test_function.py",
\* naming an existing file with its extension, the call returns all tests
\* of that file.
C22_FileWithExtension ==
    \A k \in 1..Len(outcomes) :
        (\/ /\ test_specifiers[k] = S_test_function
            /\ HasFile(cwd, D_root, S_test_function)
         \/ /\ test_specifiers[k] = <<"tests", "/">> \o S_test_function
            /\ HasFile(cwd, D_tests, S_test_function)) =>
            /\ outcomes[k].kind = "ok"
            /\ NamesOf(outcomes[k].value) = DeclaredTests(S_test_function)

\* C23: for the specifier "tests/alpha_1", the path of an existing directory
\* with two components, the call returns the tests of the test files of
\* that directory.
C23_DirectoryPath ==
    \A k \in 1..Len(outcomes) :
        (/\ test_specifiers[k] = <<"tests", "/", "alpha", "_1">>
         /\ IsDir(cwd, D_tests_alpha_1)) =>
            /\ outcomes[k].kind = "ok"
            /\ NamesOf(outcomes[k].value) = TestsIn(D_tests_alpha_1)

\* C24: for the empty specifier and for "all", in a directory that holds
\* test files, the call returns the tests of every test file of the
\* current directory.
C24_DefaultScansRoot ==
    \A k \in 1..Len(outcomes) :
        (test_specifiers[k] \in {<<>>, <<"all">>} /\ TestFilesIn(D_root) # {}) =>
            /\ outcomes[k].kind = "ok"
            /\ TestsIn(D_root) \subseteq NamesOf(outcomes[k].value)

\* the directory a specifier without "." and "*" names
DirOf(specifier) == IF Truthy(specifier) THEN PathOf(specifier) ELSE D_root

\* C25: a call for an existing directory that holds no test file raises
\* NoTestFilesFoundError and gives no tests; it does not return a list.
C25_NoTestFilesIsAnError ==
    \A k \in 1..Len(outcomes) :
        LET sp == test_specifiers[k] IN
        (/\ ~Contains(sp, ".") /\ ~Contains(sp, "*")
         /\ IsDir(cwd, DirOf(sp))
         /\ TestFilesIn(DirOf(sp)) = {}) =>
            /\ outcomes[k].kind = "NoTestFilesFoundError"
            /\ outcomes[k].value = <<>>
            /\ dpc = "raised" /\ discovery_error = "NoTestFilesFoundError"

\* discover_tests has raised for the empty specifier in a current directory
\* that holds files but no test file
C25_Witness ==
    /\ dpc = "raised"
    /\ cwd = NestedTree
    /\ test_specifiers = <<<<"tests">>, <<>>>>
    /\ Len(outcomes) = 2
    /\ outcomes[2].kind = "NoTestFilesFoundError"

\* C26: for the empty specifier in a directory that holds no test file but
\* has a sub-directory tests/ with test files, the call returns the tests of
\* tests/.
C26_TestsSubdirectoryFallback ==
    \A k \in 1..Len(outcomes) :
        (/\ test_specifiers[k] = <<>>
         /\ TestFilesIn(D_root) = {}
         /\ IsDir(cwd, D_tests) /\ TestFilesIn(D_tests) # {}) =>
            /\ outcomes[k].kind = "ok"
            /\ NamesOf(outcomes[k].value) = TestsIn(D_tests)

\* the names of the functions and methods of a file that match the naming
\* or tag rule but are not asynchronous
NonAsyncTests(file) ==
    LET decls == ModuleSource(file).decls
        tops == { decls[i] : i \in 1..Len(decls) }
    IN { Stem(file) \o <<".">> \o d.name :
            d \in { t \in tops : t.kind = "func" /\ ~t.async
                        /\ (t.tagged \/ StartsWith(t.name, TestPrefix)) } }
       \cup UNION { { Stem(file) \o <<".">> \o c.name \o <<".">> \o c.methods[i].name :
                        i \in { h \in 1..Len(c.methods) :
                                    /\ ~c.methods[h].async
                                    /\ \/ c.methods[h].tagged
                                       \/ StartsWith(c.methods[h].name, TestPrefix) } } :
                    c \in { t \in tops : t.kind = "class"
                            /\ (t.tagged \/ StartsWith(t.name, <<"Test">>)) } }

\* C27: a call that looks into a file whose code imports without error
\* returns a list; the list holds none of the file's synchronous functions
\* and methods that match the test rule, and every asynchronous test of the
\* file that matches the method pattern.
C27_SynchronousTestsLeftOut ==
    \A k \in 1..Len(outcomes) :
        LET o == outcomes[k] IN
        \A n \in 1..Len(o.files) :
            LET file == o.files[n][2] IN
            ModuleSource(file).raise_line = 0 =>
                /\ o.kind = "ok"
                /\ NonAsyncTests(file) \cap NamesOf(o.value) = {}
                /\ \A t \in DeclaredTests(file) :
                        _check_wildcard_match(MethodOf(k), LastName(t)) =>
                            t \in NamesOf(o.value)

\* a call that returned the asynchronous tests of test_order.py, which also
\* declares a synchronous test_ function, a synchronous test_ method and a
\* synchronous tagged function
C27_Witness ==
    \E k \in Returned :
        /\ \E n \in 1..Len(outcomes[k].files) : outcomes[k].files[n][2] = S_test_order
        /\ test_specifiers[k] = <<>>
        /\ Cardinality(NonAsyncTests(S_test_order)) = 3
        /\ DeclaredTests(S_test_order) \subseteq NamesOf(outcomes[k].value)
        /\ <<"test_", "order", ".", "order">> \in NamesOf(outcomes[k].value)

-----------------------------------------------------------------------------
(***************************************************************************)
(* Package lookup: find_and_import_nearest_package and _import_package     *)
(* (src/test_a_ble/test_discovery.py lines 41-149).                        *)
(*                                                                         *)
(* `ancestors` lists the directory handed to the lookup and its parents,   *)
(* nearest first; the last one is the root of the file system, which is    *)
(* its own parent.  A directory is named by its index, so no two of them   *)
(* share a package name.                                                   *)
(***************************************************************************)

MAX_IMPORT_PARENT_DIRECTORIES == 2

MaxDepth == 4      \* longest chain of directories from `path` to the root

\* a directory is no package, a package, or a package whose __init__.py raises
DirStates ==
    { d \in [is_package : BOOLEAN, init_raises : BOOLEAN] :
        d.init_raises => d.is_package }

Chains == UNION { [1..n -> DirStates] : n \in 1..MaxDepth }

\* _is_package (lines 41-50)
_is_package(dir) == ancestors[dir].is_package

\* _import_package (lines 53-98): whether it raises ImportError, and
\* sys.modules when it is left.  The entry is made before __init__.py is
\* executed (line 89) and stays when the execution raises.
_import_package(dir, modules) ==
    IF dir \in modules
    THEN [raised |-> FALSE, modules |-> modules]
    ELSE IF ~ancestors[dir].is_package
    THEN [raised |-> TRUE, modules |-> modules]
    ELSE [raised |-> ancestors[dir].init_raises,
          modules |-> modules \cup {dir}]

InitP ==
    /\ IdleRunner
    /\ NoSelection
    /\ NoCliRun
    /\ NoDiscovery
    /\ NoManager
    /\ ancestors \in Chains
    /\ sys_modules \in SUBSET { k \in DOMAIN ancestors : ancestors[k].is_package }
    /\ ppc = "idle"
    /\ current_dir = 0
    /\ parent_count = 0
    /\ lookup = 0

\* find_and_import_nearest_package(path) is called (lines 122-123)
FindNearest_Call ==
    /\ ppc = "idle"
    /\ ppc' = "loop"
    /\ current_dir' = 1
    /\ parent_count' = 0
    /\ UNCHANGED <<ancestors, sys_modules, lookup>>
    /\ UNCHANGED not_pvars

\* the loop is at a package that imports: it is returned (lines 126-138)
FindNearest_Found ==
    /\ ppc = "loop"
    /\ parent_count < MAX_IMPORT_PARENT_DIRECTORIES
    /\ _is_package(current_dir)
    /\ ~_import_package(current_dir, sys_modules).raised
    /\ sys_modules' = _import_package(current_dir, sys_modules).modules
    /\ lookup' = current_dir
    /\ ppc' = "returned"
    /\ UNCHANGED <<ancestors, current_dir, parent_count>>
    /\ UNCHANGED not_pvars

\* the loop is at a package whose import fails: ImportError leaves the
\* function (lines 133-137)
FindNearest_ImportError ==
    /\ ppc = "loop"
    /\ parent_count < MAX_IMPORT_PARENT_DIRECTORIES
    /\ _is_package(current_dir)
    /\ _import_package(current_dir, sys_modules).raised
    /\ sys_modules' = _import_package(current_dir, sys_modules).modules
    /\ ppc' = "raised"
    /\ UNCHANGED <<ancestors, current_dir, parent_count, lookup>>
    /\ UNCHANGED not_pvars

\* the loop is at a directory that is no package and has a parent: it moves
\* up (lines 141-146)
FindNearest_Up ==
    /\ ppc = "loop"
    /\ parent_count < MAX_IMPORT_PARENT_DIRECTORIES
    /\ ~_is_package(current_dir)
    /\ current_dir < Len(ancestors)
    /\ current_dir' = current_dir + 1
    /\ parent_count' = parent_count + 1
    /\ UNCHANGED <<ancestors, sys_modules, ppc, lookup>>
    /\ UNCHANGED not_pvars

\* the loop is at the root, which is no package: None (lines 141-143)
FindNearest_Root ==
    /\ ppc = "loop"
    /\ parent_count < MAX_IMPORT_PARENT_DIRECTORIES
    /\ ~_is_package(current_dir)
    /\ current_dir = Len(ancestors)
    /\ lookup' = 0
    /\ ppc' = "returned"
    /\ UNCHANGED <<ancestors, sys_modules, current_dir, parent_count>>
    /\ UNCHANGED not_pvars

\* the loop condition fails: None (lines 126, 148)
FindNearest_Exhausted ==
    /\ ppc = "loop"
    /\ ~(parent_count < MAX_IMPORT_PARENT_DIRECTORIES)
    /\ lookup' = 0
    /\ ppc' = "returned"
    /\ UNCHANGED <<ancestors, sys_modules, current_dir, parent_count>>
    /\ UNCHANGED not_pvars

\* _import_package(dir) is called on a package once the lookup is over
\* (lines 53-98)
ImportPackage_Call(dir) ==
    /\ ppc \in {"returned", "raised", "imported", "import_raised"}
    /\ _is_package(dir)
    /\ current_dir' = dir
    /\ sys_modules' = _import_package(dir, sys_modules).modules
    /\ ppc' = IF _import_package(dir, sys_modules).raised
              THEN "import_raised"
              ELSE "imported"
    /\ UNCHANGED <<ancestors, parent_count, lookup>>
    /\ UNCHANGED not_pvars

NextP ==
    \/ \E dir \in DOMAIN ancestors : ImportPackage_Call(dir)
    \/ FindNearest_Call
    \/ FindNearest_Found
    \/ FindNearest_ImportError
    \/ FindNearest_Up
    \/ FindNearest_Root
    \/ FindNearest_Exhausted

SpecP == InitP /\ [][NextP]_vars

\* the given directory and its parents, up to MAX_IMPORT_PARENT_DIRECTORIES of them
WithinReach ==
    { k \in DOMAIN ancestors : k <= 1 + MAX_IMPORT_PARENT_DIRECTORIES }

PackagesWithinReach == { k \in WithinReach : ancestors[k].is_package }

\* the nearest of them that is a package, 0 (None) when there is none
NearestPackage ==
    IF PackagesWithinReach = {}
    THEN 0
    ELSE CHOOSE k \in PackagesWithinReach : \A j \in PackagesWithinReach : k <= j

\* C28: find_and_import_nearest_package(path) looks at the given directory and
\* at up to 2 of its parents; it returns the nearest of them that is a
\* package, and None when none of them is one.
C28_NearestPackageWithinTwoParents ==
    ppc = "returned" => lookup = NearestPackage

-----------------------------------------------------------------------------
(***************************************************************************)
(* BLE manager: BLEManager of src/test_a_ble/ble_manager.py.               *)
(*                                                                         *)
(* One manager, one device ("dev") and the client made for it.  The        *)
(* operations of the manager are coroutines of one event loop and are      *)
(* called one after the other; the radio link can be lost at any moment.   *)
(* Every awaited call on the client either returns or raises an Exception. *)
(***************************************************************************)

MaxRetries == 2    \* largest retry_count handed to connect_to_device

MaxCallbacks == 2  \* most callbacks registered for one characteristic

Callbacks == {"f", "g"}

\* a call on the client or on asyncio.sleep, and whether it raised
Request(call, uuid, failed) == [call |-> call, uuid |-> uuid, raised |-> failed]

\* the characteristics that are keys of notification_callbacks
CallbackKeys(callbacks) == { u \in UUIDs : callbacks[u] # NoEntry }

\* list.remove(u): the list without the first u
RemoveFirst(list, u) ==
    IF ~Contains(list, u)
    THEN list
    ELSE LET i == CHOOSE k \in 1..Len(list) :
                      list[k] = u /\ \A j \in 1..(k - 1) : list[j] # u
         IN SubSeq(list, 1, i - 1) \o SubSeq(list, i + 1, Len(list))

InitB ==
    /\ IdleRunner
    /\ NoSelection
    /\ NoCliRun
    /\ NoDiscovery
    /\ NoLookup
    /\ BLEManager_init
    /\ bpc = "idle"

\* the link to the device is lost: BleakClient.is_connected turns False
LinkLost ==
    /\ client # "None"
    /\ is_connected
    /\ is_connected' = FALSE
    /\ UNCHANGED <<device, client, connected, active_subscriptions,
                   notification_callbacks, services, characteristics, bpc,
                   retry_count, attempt, sub_it, requests, returned>>
    /\ UNCHANGED <<subs_at_call, starts, invoked>>
    /\ UNCHANGED not_bvars

\* connect_to_device(address, n) with an address _find_device_by_address
\* finds no device for (lines 262-266)
ConnectToDevice_NotFound(n) ==
    /\ bpc = "idle"
    /\ device' = "None"
    /\ retry_count' = n
    /\ attempt' = 0
    /\ requests' = <<>>
    /\ returned' = "False"
    /\ UNCHANGED <<client, connected, is_connected, active_subscriptions,
                   notification_callbacks, services, characteristics, bpc>>
    /\ UNCHANGED <<starts, invoked>>
    /\ subs_at_call' = <<>>
    /\ sub_it' = 0
    /\ UNCHANGED not_bvars

\* connect_to_device(device, n), or with an address the device is found
\* for: _attempt_connection enters its loop (lines 262-271, 219-225)
ConnectToDevice_Begin(n) ==
    /\ bpc = "idle"
    /\ device' = "dev"
    /\ retry_count' = n
    /\ attempt' = 0
    /\ requests' = <<>>
    /\ returned' = "pending"
    /\ bpc' = "connecting"
    /\ UNCHANGED <<client, connected, is_connected, active_subscriptions,
                   notification_callbacks, services, characteristics>>
    /\ UNCHANGED <<starts, invoked>>
    /\ subs_at_call' = <<>>
    /\ sub_it' = 0
    /\ UNCHANGED not_bvars

\* an iteration of the loop whose connect() returns (lines 228-231, 236-239)
AttemptConnection_Success ==
    /\ bpc = "connecting"
    /\ attempt < retry_count
    /\ client' = "client"
    /\ is_connected' = TRUE
    /\ requests' = Append(requests, Request("connect", "", FALSE))
    /\ connected' = TRUE
    /\ returned' = "True"
    /\ bpc' = "idle"
    /\ UNCHANGED <<device, active_subscriptions, notification_callbacks,
                   services, characteristics, retry_count, attempt, sub_it>>
    /\ UNCHANGED <<subs_at_call, starts, invoked>>
    /\ UNCHANGED not_bvars

\* an iteration of the loop whose connect() raises and which waits
\* retry_delay after every failure
AttemptConnection_Failure_AlwaysWaits ==
    /\ bpc = "connecting"
    /\ attempt < retry_count
    /\ client' = "client"
    /\ is_connected' = FALSE
    /\ requests' = requests \o <<Request("connect", "", TRUE),
                                  Request("sleep", "", FALSE)>>
    /\ attempt' = attempt + 1
    /\ UNCHANGED <<device, connected, active_subscriptions,
                   notification_callbacks, services, characteristics, bpc,
                   retry_count, sub_it, returned>>
    /\ UNCHANGED <<subs_at_call, starts, invoked>>
    /\ UNCHANGED not_bvars

\* an iteration of the loop whose connect() raises: retry_delay is waited
\* when another iteration follows (lines 228-235)
AttemptConnection_Failure ==
    /\ bpc = "connecting"
    /\ attempt < retry_count
    /\ client' = "client"
    /\ is_connected' = FALSE
    /\ requests' = requests \o <<Request("connect", "", TRUE)>> \o
                      (IF attempt < retry_count - 1
                       THEN <<Request("sleep", "", FALSE)>>
                       ELSE <<>>)
    /\ attempt' = attempt + 1
    /\ UNCHANGED <<device, connected, active_subscriptions,
                   notification_callbacks, services, characteristics, bpc,
                   retry_count, sub_it, returned>>
    /\ UNCHANGED <<subs_at_call, starts, invoked>>
    /\ UNCHANGED not_bvars

\* the loop is over without a connection (lines 241-243)
AttemptConnection_Exhausted ==
    /\ bpc = "connecting"
    /\ ~(attempt < retry_count)
    /\ device' = "None"
    /\ returned' = "False"
    /\ bpc' = "idle"
    /\ UNCHANGED <<client, connected, is_connected, active_subscriptions,
                   notification_callbacks, services, characteristics,
                   retry_count, attempt, sub_it, requests>>
    /\ UNCHANGED <<subs_at_call, starts, invoked>>
    /\ UNCHANGED not_bvars

\* the manager holds a client whose link is up, and a device
Linked == client # "None" /\ is_connected /\ device # "None"

\* discover_services(cache) (lines 314-362): the services of the device are
\* cached under its address
DiscoverServices(cache) ==
    /\ bpc = "idle"
    /\ services' = IF Linked /\ cache THEN services \cup {device} ELSE services
    /\ requests' = <<>>
    /\ returned' = "services"
    /\ UNCHANGED <<device, client, connected, is_connected,
                   active_subscriptions, notification_callbacks,
                   characteristics, bpc>>
    /\ UNCHANGED <<starts, invoked>>
    /\ subs_at_call' = <<>>
    /\ sub_it' = 0
    /\ retry_count' = 0
    /\ attempt' = 0
    /\ UNCHANGED not_bvars

\* subscribe_to_characteristic without a connected client: RuntimeError
\* (lines 537-538)
SubscribeToCharacteristic_NotConnected ==
    /\ bpc = "idle"
    /\ ~(client # "None" /\ is_connected)
    /\ requests' = <<>>
    /\ returned' = "RuntimeError"
    /\ UNCHANGED <<device, client, connected, is_connected,
                   active_subscriptions, notification_callbacks, services,
                   characteristics, bpc>>
    /\ UNCHANGED <<starts, invoked>>
    /\ subs_at_call' = <<>>
    /\ sub_it' = 0
    /\ retry_count' = 0
    /\ attempt' = 0
    /\ UNCHANGED not_bvars

\* subscribe_to_characteristic(u, cb) for a characteristic without an entry,
\* start_notify returns (lines 541-557)
SubscribeToCharacteristic_First(u, cb) ==
    /\ bpc = "idle"
    /\ client # "None" /\ is_connected
    /\ notification_callbacks[u] = NoEntry
    /\ requests' = <<Request("start_notify", u, FALSE)>>
    /\ active_subscriptions' = Append(active_subscriptions, u)
    /\ notification_callbacks' = [notification_callbacks EXCEPT ![u] = <<cb>>]
    /\ returned' = "subscribed"
    /\ UNCHANGED <<device, client, connected, is_connected, services,
                   characteristics, bpc>>
    /\ starts' = [starts EXCEPT ![u] = @ + 1]
    /\ UNCHANGED <<invoked>>
    /\ subs_at_call' = <<>>
    /\ sub_it' = 0
    /\ retry_count' = 0
    /\ attempt' = 0
    /\ UNCHANGED not_bvars

\* subscribe_to_characteristic(u, cb) for a characteristic without an entry,
\* start_notify raises: the exception is raised again, the entry made on
\* line 542 stays (lines 541-551)
SubscribeToCharacteristic_StartFails(u) ==
    /\ bpc = "idle"
    /\ client # "None" /\ is_connected
    /\ notification_callbacks[u] = NoEntry
    /\ requests' = <<Request("start_notify", u, TRUE)>>
    /\ notification_callbacks' = [notification_callbacks EXCEPT ![u] = <<>>]
    /\ returned' = "raised"
    /\ UNCHANGED <<device, client, connected, is_connected,
                   active_subscriptions, services, characteristics, bpc>>
    /\ starts' = [starts EXCEPT ![u] = @ + 1]
    /\ UNCHANGED <<invoked>>
    /\ subs_at_call' = <<>>
    /\ sub_it' = 0
    /\ retry_count' = 0
    /\ attempt' = 0
    /\ UNCHANGED not_bvars

\* subscribe_to_characteristic(u, cb) for a characteristic that has an entry,
\* asking the client for notifications on every call
SubscribeToCharacteristic_Again_StartsAgain(u, cb) ==
    /\ bpc = "idle"
    /\ client # "None" /\ is_connected
    /\ notification_callbacks[u] # NoEntry
    /\ Len(notification_callbacks[u]) < MaxCallbacks
    /\ requests' = <<Request("start_notify", u, FALSE)>>
    /\ notification_callbacks' =
           [notification_callbacks EXCEPT ![u] = Append(@, cb)]
    /\ returned' = "subscribed"
    /\ starts' = [starts EXCEPT ![u] = @ + 1]
    /\ UNCHANGED <<device, client, connected, is_connected,
                   active_subscriptions, services, characteristics, bpc,
                   invoked>>
    /\ subs_at_call' = <<>>
    /\ sub_it' = 0
    /\ retry_count' = 0
    /\ attempt' = 0
    /\ UNCHANGED not_bvars

\* subscribe_to_characteristic(u, cb) for a characteristic that has an entry:
\* the callback is appended (lines 541, 553)
SubscribeToCharacteristic_Again(u, cb) ==
    /\ bpc = "idle"
    /\ client # "None" /\ is_connected
    /\ notification_callbacks[u] # NoEntry
    /\ Len(notification_callbacks[u]) < MaxCallbacks
    /\ requests' = <<>>
    /\ notification_callbacks' =
           [notification_callbacks EXCEPT ![u] = Append(@, cb)]
    /\ returned' = "subscribed"
    /\ UNCHANGED <<device, client, connected, is_connected,
                   active_subscriptions, services, characteristics, bpc>>
    /\ UNCHANGED <<starts, invoked>>
    /\ subs_at_call' = <<>>
    /\ sub_it' = 0
    /\ retry_count' = 0
    /\ attempt' = 0
    /\ UNCHANGED not_bvars

\* unsubscribe_from_characteristic(u) that keeps the entries of u when
\* stop_notify raises
Unsubscribed_KeepsOnError(u, stop_raises, subs, callbacks, reqs) ==
    [subs |-> IF stop_raises THEN subs ELSE RemoveFirst(subs, u),
     callbacks |-> IF stop_raises THEN callbacks
                   ELSE [callbacks EXCEPT ![u] = NoEntry],
     reqs |-> IF Linked /\ Contains(subs, u)
              THEN Append(reqs, Request("stop_notify", u, stop_raises))
              ELSE reqs]

\* unsubscribe_from_characteristic(u) (lines 559-606) on the subscriptions
\* `subs`, the callbacks `callbacks` and the requests `reqs` made so far:
\* stop_notify is requested when the manager is linked and u is an active
\* subscription; its failure is logged.  The entries of u go in every case.
Unsubscribed(u, stop_raises, subs, callbacks, reqs) ==
    [subs |-> RemoveFirst(subs, u),
     callbacks |-> [callbacks EXCEPT ![u] = NoEntry],
     reqs |-> IF Linked /\ Contains(subs, u)
              THEN Append(reqs, Request("stop_notify", u, stop_raises))
              ELSE reqs]

\* unsubscribe_from_characteristic(u) is called (lines 559-606)
UnsubscribeFromCharacteristic(u, stop_raises) ==
    /\ bpc = "idle"
    /\ stop_raises => (Linked /\ Contains(active_subscriptions, u))
    /\ LET after == Unsubscribed(u, stop_raises, active_subscriptions,
                                 notification_callbacks, <<>>)
       IN /\ active_subscriptions' = after.subs
          /\ notification_callbacks' = after.callbacks
          /\ requests' = after.reqs
    /\ returned' = "unsubscribed"
    /\ UNCHANGED <<device, client, connected, is_connected, services,
                   characteristics, bpc>>
    /\ starts' = [starts EXCEPT ![u] = 0]
    /\ UNCHANGED <<invoked>>
    /\ subs_at_call' = <<>>
    /\ sub_it' = 0
    /\ retry_count' = 0
    /\ attempt' = 0
    /\ UNCHANGED not_bvars

\* disconnect() on a manager without a client returns at once (lines 277-279)
Disconnect_NoClient ==
    /\ bpc = "idle"
    /\ client = "None"
    /\ requests' = <<>>
    /\ returned' = "None"
    /\ UNCHANGED <<device, client, connected, is_connected,
                   active_subscriptions, notification_callbacks, services,
                   characteristics, bpc>>
    /\ UNCHANGED <<starts, invoked>>
    /\ subs_at_call' = <<>>
    /\ sub_it' = 0
    /\ retry_count' = 0
    /\ attempt' = 0
    /\ UNCHANGED not_bvars

\* disconnect() on a manager with a client: the loop over
\* active_subscriptions is entered (lines 277-284)
Disconnect_Begin ==
    /\ bpc = "idle"
    /\ client # "None"
    /\ requests' = <<>>
    /\ sub_it' = 0
    /\ returned' = "pending"
    /\ bpc' = "unsubscribing"
    /\ UNCHANGED <<device, client, connected, is_connected,
                   active_subscriptions, notification_callbacks, services,
                   characteristics>>
    /\ subs_at_call' = active_subscriptions
    /\ UNCHANGED <<starts, invoked>>
    /\ retry_count' = 0
    /\ attempt' = 0
    /\ UNCHANGED not_bvars

\* an iteration of the loop (lines 284-289).  The list iterator holds an
\* index into active_subscriptions, the list unsubscribe removes from.
Disconnect_Unsubscribe(stop_raises) ==
    /\ bpc = "unsubscribing"
    /\ sub_it < Len(active_subscriptions)
    /\ stop_raises => Linked
    /\ LET after == Unsubscribed(active_subscriptions[sub_it + 1], stop_raises,
                                 active_subscriptions, notification_callbacks,
                                 requests)
       IN /\ active_subscriptions' = after.subs
          /\ notification_callbacks' = after.callbacks
          /\ requests' = after.reqs
    /\ sub_it' = sub_it + 1
    /\ UNCHANGED <<device, client, connected, is_connected, services,
                   characteristics, bpc, retry_count, attempt, returned>>
    /\ starts' = [starts EXCEPT ![active_subscriptions[sub_it + 1]] = 0]
    /\ UNCHANGED <<subs_at_call, invoked>>
    /\ UNCHANGED not_bvars

\* the end of disconnect() without its finally clause: the state is cleaned
\* up when the client's disconnect() did not raise
Disconnect_Close_CleanupOnSuccess(raises) ==
    /\ bpc = "unsubscribing"
    /\ ~(sub_it < Len(active_subscriptions))
    /\ raises => is_connected
    /\ requests' = IF is_connected
                   THEN Append(requests, Request("disconnect", "", raises))
                   ELSE requests
    /\ IF raises
       THEN UNCHANGED <<connected, active_subscriptions, notification_callbacks,
                        services, characteristics, client, is_connected>>
       ELSE /\ connected' = FALSE
            /\ active_subscriptions' = <<>>
            /\ notification_callbacks' = [u \in UUIDs |-> NoEntry]
            /\ services' = {}
            /\ characteristics' = {}
            /\ client' = "None"
            /\ is_connected' = FALSE
    /\ returned' = "disconnected"
    /\ bpc' = "idle"
    /\ UNCHANGED <<device, retry_count, attempt, sub_it>>
    /\ starts' = (IF raises THEN starts ELSE [u \in UUIDs |-> 0])
    /\ UNCHANGED <<subs_at_call, invoked>>
    /\ UNCHANGED not_bvars

\* the end of disconnect() (lines 292-312): the client's disconnect() is
\* awaited when its link is up, an exception of it is logged, and the
\* finally clause cleans the state up
Disconnect_Close(raises) ==
    /\ bpc = "unsubscribing"
    /\ ~(sub_it < Len(active_subscriptions))
    /\ raises => is_connected
    /\ requests' = IF is_connected
                   THEN Append(requests, Request("disconnect", "", raises))
                   ELSE requests
    /\ connected' = FALSE
    /\ active_subscriptions' = <<>>
    /\ notification_callbacks' = [u \in UUIDs |-> NoEntry]
    /\ services' = {}
    /\ characteristics' = {}
    /\ client' = "None"
    /\ is_connected' = FALSE
    /\ returned' = "disconnected"
    /\ bpc' = "idle"
    /\ UNCHANGED <<device, retry_count, attempt, sub_it>>
    /\ starts' = [u \in UUIDs |-> 0]
    /\ UNCHANGED <<subs_at_call, invoked>>
    /\ UNCHANGED not_bvars

\* what a notification can carry: data, an error string, nothing
Payloads == {"bytes", "str", "None"}

\* the loop over the callbacks without its try: the first exception ends it
RECURSIVE RunCallbacks_Unguarded(_, _)
RunCallbacks_Unguarded(registered, raising) ==
    IF registered = <<>>
    THEN <<>>
    ELSE <<[callback |-> Head(registered), raised |-> Head(registered) \in raising]>>
         \o (IF Head(registered) \in raising
             THEN <<>>
             ELSE RunCallbacks_Unguarded(Tail(registered), raising))

\* the loop over the callbacks of a characteristic (lines 514-518): each is
\* called, an exception of it is logged
RECURSIVE RunCallbacks(_, _)
RunCallbacks(registered, raising) ==
    IF registered = <<>>
    THEN <<>>
    ELSE <<[callback |-> Head(registered), raised |-> Head(registered) \in raising]>>
         \o RunCallbacks(Tail(registered), raising)

\* the handler _notification_handler(u) made is called by the client with a
\* payload (lines 503-522); the callbacks in `raising` raise
_handle_notification(u, payload, raising) ==
    /\ client # "None"
    /\ is_connected
    /\ Contains(active_subscriptions, u)
    /\ invoked' =
          [uuid |-> u,
           payload |-> payload,
           calls |-> IF payload = "bytes" /\ notification_callbacks[u] # NoEntry
                     THEN RunCallbacks(notification_callbacks[u], raising)
                     ELSE <<>>]
    /\ UNCHANGED <<device, client, connected, is_connected,
                   active_subscriptions, notification_callbacks, services,
                   characteristics, bpc, retry_count, attempt, sub_it,
                   requests, returned, subs_at_call, starts>>
    /\ UNCHANGED not_bvars

NextB ==
    \/ LinkLost
    \/ \E n \in 0..MaxRetries : ConnectToDevice_NotFound(n)
    \/ \E n \in 0..MaxRetries : ConnectToDevice_Begin(n)
    \/ AttemptConnection_Success
    \/ AttemptConnection_Failure
    \/ AttemptConnection_Exhausted
    \/ \E cache \in BOOLEAN : DiscoverServices(cache)
    \/ SubscribeToCharacteristic_NotConnected
    \/ \E u \in UUIDs, cb \in Callbacks : SubscribeToCharacteristic_First(u, cb)
    \/ \E u \in UUIDs : SubscribeToCharacteristic_StartFails(u)
    \/ \E u \in UUIDs, cb \in Callbacks : SubscribeToCharacteristic_Again(u, cb)
    \/ \E u \in UUIDs, stop_raises \in BOOLEAN :
          UnsubscribeFromCharacteristic(u, stop_raises)
    \/ Disconnect_NoClient
    \/ Disconnect_Begin
    \/ \E stop_raises \in BOOLEAN : Disconnect_Unsubscribe(stop_raises)
    \/ \E raises \in BOOLEAN : Disconnect_Close(raises)

SpecB == InitB /\ [][NextB]_vars

\* the manager after connect_to_device(device, 1) whose attempt succeeded
InitN ==
    /\ IdleRunner
    /\ NoSelection
    /\ NoCliRun
    /\ NoDiscovery
    /\ NoLookup
    /\ device = "dev"
    /\ client = "client"
    /\ connected = TRUE
    /\ is_connected = TRUE
    /\ active_subscriptions = <<>>
    /\ notification_callbacks = [u \in UUIDs |-> NoEntry]
    /\ services = {}
    /\ characteristics = {}
    /\ bpc = "idle"
    /\ retry_count = 1
    /\ attempt = 0
    /\ sub_it = 0
    /\ requests = <<Request("connect", "", FALSE)>>
    /\ returned = "True"
    /\ subs_at_call = <<>>
    /\ starts = [u \in UUIDs |-> 0]
    /\ invoked = NoNotification

\* subscriptions of a connected manager and the notifications they get
NextN ==
    \/ LinkLost
    \/ SubscribeToCharacteristic_NotConnected
    \/ \E u \in UUIDs, cb \in Callbacks : SubscribeToCharacteristic_First(u, cb)
    \/ \E u \in UUIDs : SubscribeToCharacteristic_StartFails(u)
    \/ \E u \in UUIDs, cb \in Callbacks : SubscribeToCharacteristic_Again(u, cb)
    \/ \E u \in UUIDs, stop_raises \in BOOLEAN :
          UnsubscribeFromCharacteristic(u, stop_raises)
    \/ \E u \in UUIDs, payload \in Payloads, raising \in SUBSET Callbacks :
          _handle_notification(u, payload, raising)

SpecN == InitN /\ [][NextN]_vars

-----------------------------------------------------------------------------
(* Claims on the BLE manager *)

\* connect_to_device has returned and nothing was called since
AfterConnect == bpc = "idle" /\ returned \in {"True", "False"}

\* the connection attempts of the current operation, in order
Attempts == SelectSeq(requests, LAMBDA r : r.call = "connect")

FailedAttempts == SelectSeq(requests, LAMBDA r : r.call = "connect" /\ r.raised)

\* C29: connect_to_device with retry_count = n makes at most n connection
\* attempts; the first attempt that succeeds is the last one, True is
\* returned and connected is set; after n failed attempts False is returned
\* and device is None; retry_delay is waited only between two attempts,
\* never after the last one.
C29_ConnectRetries ==
    /\ (bpc = "connecting" \/ AfterConnect) => Len(Attempts) <= retry_count
    /\ \A i \in 1..Len(requests) :
          (requests[i].call = "connect" /\ ~requests[i].raised) =>
              (i = Len(requests) /\ returned = "True" /\ connected)
    /\ (AfterConnect /\ returned = "True") =>
          (/\ connected
           /\ Len(Attempts) > Len(FailedAttempts))
    /\ (AfterConnect /\ returned = "False") =>
          (/\ device = "None"
           /\ Len(FailedAttempts) = Len(Attempts)
           /\ Len(Attempts) \in {0, retry_count})
    /\ (AfterConnect /\ Len(FailedAttempts) = retry_count) =>
          (returned = "False" /\ device = "None")
    /\ \A i \in 1..Len(requests) :
          requests[i].call = "sleep" =>
              /\ i > 1
              /\ requests[i - 1].call = "connect"
              /\ requests[i - 1].raised
              /\ AfterConnect =>
                    (i < Len(requests) /\ requests[i + 1].call = "connect")

\* every attempt the caller allowed has failed, with a wait between them
C29_Witness ==
    /\ AfterConnect
    /\ returned = "False"
    /\ retry_count = MaxRetries
    /\ Len(FailedAttempts) = MaxRetries
    /\ \E i \in 1..Len(requests) : requests[i].call = "sleep"

\* C30: after disconnect() returns on a manager that had a client, connected
\* is False, client is None, and active_subscriptions, notification_callbacks,
\* services and characteristics are empty, whether or not the client's
\* disconnect or an unsubscribe raised.
C30_DisconnectCleansUp ==
    (bpc = "idle" /\ returned = "disconnected") =>
        /\ connected = FALSE
        /\ client = "None"
        /\ active_subscriptions = <<>>
        /\ CallbackKeys(notification_callbacks) = {}
        /\ services = {}
        /\ characteristics = {}

\* disconnect() has returned after a stop_notify and the client's
\* disconnect both raised
C30_Witness ==
    /\ bpc = "idle"
    /\ returned = "disconnected"
    /\ \E i \in 1..Len(requests) :
          requests[i].call = "stop_notify" /\ requests[i].raised
    /\ \E i \in 1..Len(requests) :
          requests[i].call = "disconnect" /\ requests[i].raised

\* disconnect() has returned and nothing was called since
AfterDisconnect == bpc = "idle" /\ returned = "disconnected"

\* request number i asks the device to stop notifying u
StopsNotify(i, u) == requests[i].call = "stop_notify" /\ requests[i].uuid = u

\* C31: for every characteristic that is in active_subscriptions when
\* disconnect() is called on a connected client, stop_notify is requested
\* from the device before the client is disconnected.
C31_StopNotifyBeforeDisconnect ==
    AfterDisconnect =>
        \A j \in 1..Len(requests) :
            requests[j].call = "disconnect" =>
                \A k \in 1..Len(subs_at_call) :
                    \E i \in 1..(j - 1) : StopsNotify(i, subs_at_call[k])

\* start_notify was called once for every characteristic that has an entry,
\* and for no other
StartedOnce ==
    \A u \in UUIDs :
        starts[u] = (IF notification_callbacks[u] = NoEntry THEN 0 ELSE 1)

\* a step that adds to the callbacks of a characteristic that has an entry
\* appends one callback and asks nothing of the client
LaterSubscribeOnlyAppends ==
    \A u \in UUIDs :
        (/\ notification_callbacks[u] # NoEntry
         /\ notification_callbacks'[u] # NoEntry
         /\ notification_callbacks'[u] # notification_callbacks[u]) =>
            /\ \E cb \in Callbacks :
                  notification_callbacks'[u] = Append(notification_callbacks[u], cb)
            /\ requests' = <<>>
            /\ active_subscriptions' = active_subscriptions

\* C32: on a connected manager start_notify is called exactly once per
\* characteristic between two unsubscribes, on the first subscribe; every
\* later subscribe to the characteristic only appends its callback.
C32_StartNotifyOncePerCharacteristic ==
    []StartedOnce /\ [][LaterSubscribeOnlyAppends]_vars

\* a second callback was registered for a characteristic
C32_Witness ==
    /\ bpc = "idle"
    /\ returned = "subscribed"
    /\ requests = <<>>
    /\ \E u \in UUIDs :
          /\ notification_callbacks[u] # NoEntry
          /\ Len(notification_callbacks[u]) = 2
          /\ Contains(active_subscriptions, u)

\* C33: after any sequence of subscribe and unsubscribe calls, also when
\* start_notify or stop_notify raised, the characteristics with an entry in
\* notification_callbacks are those in active_subscriptions, and
\* active_subscriptions holds no characteristic twice.
C33_CallbacksMatchSubscriptions ==
    bpc = "idle" =>
        /\ CallbackKeys(notification_callbacks) =
              { active_subscriptions[i] : i \in 1..Len(active_subscriptions) }
        /\ \A i, j \in 1..Len(active_subscriptions) :
              active_subscriptions[i] = active_subscriptions[j] => i = j

\* the names of the callbacks a notification invoked, in order
InvokedCallbacks(notified) ==
    [k \in 1..Len(notified.calls) |-> notified.calls[k].callback]

\* C34: a data notification for a characteristic invokes every callback
\* registered for it once, in registration order, whether or not one of
\* them raises; a payload that is no bytes invokes no callback.
C34_NotificationReachesEveryCallback ==
    [][invoked' # invoked =>
          IF invoked'.payload = "bytes"
          THEN InvokedCallbacks(invoked') = notification_callbacks[invoked'.uuid]
          ELSE invoked'.calls = <<>>]_vars

\* a notification whose first callback raised reached the second one
C34_Witness ==
    /\ invoked.payload = "bytes"
    /\ Len(invoked.calls) = 2
    /\ invoked.calls[1].raised
    /\ invoked.calls[1].callback # invoked.calls[2].callback

\* C35: unsubscribe_from_characteristic(u) never raises and, when it
\* returns, u is in neither active_subscriptions nor notification_callbacks,
\* connected or not and whether or not stop_notify raised; the entries of
\* every other characteristic are as before.
C35_UnsubscribeRemovesOnlyItsEntries ==
    [][\A u \in UUIDs, stop_raises \in BOOLEAN :
          UnsubscribeFromCharacteristic(u, stop_raises) =>
              /\ returned' = "unsubscribed"
              /\ notification_callbacks'[u] = NoEntry
              /\ \A v \in UUIDs \ {u} :
                    notification_callbacks'[v] = notification_callbacks[v]
              /\ active_subscriptions' =
                    SelectSeq(active_subscriptions, LAMBDA v : v # u)]_vars

\* an unsubscribe whose stop_notify raised has returned and another
\* characteristic is still subscribed
C35_Witness ==
    /\ bpc = "idle"
    /\ returned = "unsubscribed"
    /\ Len(requests) = 1
    /\ requests[1].call = "stop_notify"
    /\ requests[1].raised
    /\ Len(active_subscriptions) = 1
    /\ active_subscriptions[1] # requests[1].uuid
    /\ notification_callbacks[active_subscriptions[1]] # NoEntry

\* C36: in every state reached by connect_to_device and disconnect calls,
\* connected = True implies that device and client are not None.
C36_ConnectedHasDeviceAndClient ==
    connected => (device # "None" /\ client # "None")

-----------------------------------------------------------------------------
(* Claims on _import_package *)

\* C40: _import_package raises ImportError on every call for a package whose
\* __init__.py raises: a failed import leaves no entry for the package in
\* sys.modules, and no call on such a package returns.
C40_FailedImportLeavesNoEntry ==
    /\ ppc \in {"raised", "import_raised"} => current_dir \notin sys_modules
    /\ ppc \in {"returned", "imported"} =>
          (current_dir \in DOMAIN ancestors => ~ancestors[current_dir].init_raises)

-----------------------------------------------------------------------------
(***************************************************************************)
(* Interactive device selection: dynamic_device_selection and the two      *)
(* tasks it creates (src/test_a_ble/cli.py lines 78-155, 256-448).         *)
(*                                                                         *)
(* The scan task, the UI task and the function itself are coroutines of    *)
(* one event loop; the user types, or does not, in a thread of its own.    *)
(* The clock counts the 0.1 s sleeps of the scan loop.                     *)
(***************************************************************************)

ScanTimeout == 3   \* sleeps of the scan loop that make up `timeout`

MaxDevices == 2    \* devices that can be discovered

\* dynamic_device_selection is called: both tasks are created and the
\* function awaits the first line of input (lines 352-418)
Selection_Call ==
    /\ spc = "idle"
    /\ scan_task' = "running"
    /\ ui_task' = "running"
    /\ spc' = "input"
    /\ UNCHANGED <<stop_event, ui_update_needed, found_devices, clock, typed,
                   pending, sel_connected>>
    /\ UNCHANGED not_svars

\* _scan_for_devices: one turn of the loop of lines 96-97
Scan_Sleep ==
    /\ scan_task = "running"
    /\ clock < ScanTimeout
    /\ ~stop_event
    /\ clock' = clock + 1
    /\ UNCHANGED <<spc, scan_task, ui_task, stop_event, ui_update_needed,
                   found_devices, typed, pending, sel_connected>>
    /\ UNCHANGED not_svars

\* _scan_for_devices: the loop ends on the timeout or on stop_event, the
\* scanner is stopped and the task is done (lines 96-104)
Scan_Finish ==
    /\ scan_task = "running"
    /\ ~(clock < ScanTimeout /\ ~stop_event)
    /\ scan_task' = "done"
    /\ UNCHANGED <<spc, ui_task, stop_event, ui_update_needed, found_devices,
                   clock, typed, pending, sel_connected>>
    /\ UNCHANGED not_svars

\* device_found_callback for a device not seen before (lines 369-382)
DeviceFound ==
    /\ scan_task = "running"
    /\ found_devices < MaxDevices
    /\ found_devices' = found_devices + 1
    /\ ui_update_needed' = TRUE
    /\ UNCHANGED <<spc, scan_task, ui_task, stop_event, clock, typed, pending,
                   sel_connected>>
    /\ UNCHANGED not_svars

\* _update_device_table_ui: the event is set, the table is drawn
\* (lines 126-152)
UI_Update ==
    /\ ui_task = "running"
    /\ ~stop_event
    /\ ui_update_needed
    /\ ui_update_needed' = FALSE
    /\ UNCHANGED <<spc, scan_task, ui_task, stop_event, found_devices, clock,
                   typed, pending, sel_connected>>
    /\ UNCHANGED not_svars

\* _update_device_table_ui: the loop condition of line 126 fails
UI_Stop ==
    /\ ui_task = "running"
    /\ stop_event
    /\ ui_task' = "done"
    /\ UNCHANGED <<spc, scan_task, stop_event, ui_update_needed, found_devices,
                   clock, typed, pending, sel_connected>>
    /\ UNCHANGED not_svars

\* the user enters a line: console.input returns.  _handle_user_input
\* (lines 256-326) sets stop_event and awaits both tasks for an empty line
\* ("menu") or a number ("select"); any other text gets an error message
\* and the loop of line 414 goes on
UserInput(line) ==
    /\ spc = "input"
    /\ typed' = TRUE
    /\ IF line = "text"
       THEN /\ ui_update_needed' = TRUE
            /\ spc' = "loop"
            /\ UNCHANGED <<stop_event, pending>>
       ELSE /\ stop_event' = TRUE
            /\ pending' = (IF line = "number" THEN "select" ELSE "menu")
            /\ spc' = "gather"
            /\ UNCHANGED ui_update_needed
    /\ UNCHANGED <<scan_task, ui_task, found_devices, clock, sel_connected>>
    /\ UNCHANGED not_svars

\* both tasks have ended: _handle_user_input goes on, connecting to the
\* selected device when a number was entered (lines 276-300, 318-326), and
\* the loop is left by the break of line 424
Gather_Done(success) ==
    /\ spc = "gather"
    /\ scan_task = "done"
    /\ ui_task = "done"
    /\ success => pending = "select"
    /\ sel_connected' = success
    /\ pending' = "none"
    /\ spc' = "cleanup"
    /\ UNCHANGED <<scan_task, ui_task, stop_event, ui_update_needed,
                   found_devices, clock, typed>>
    /\ UNCHANGED not_svars

\* the loop condition of line 414 is tested again after a line that was
\* no number
Loop_Test ==
    /\ spc = "loop"
    /\ spc' = IF scan_task = "done" THEN "cleanup" ELSE "input"
    /\ UNCHANGED <<scan_task, ui_task, stop_event, ui_update_needed,
                   found_devices, clock, typed, pending, sel_connected>>
    /\ UNCHANGED not_svars

\* the finally clause: _cleanup_tasks sets stop_event and cancels the tasks
\* still running (lines 329-349); the selection menu is shown when no
\* device was connected (lines 442-448)
Selection_Cleanup ==
    /\ spc = "cleanup"
    /\ stop_event' = TRUE
    /\ scan_task' = "done"
    /\ ui_task' = IF ui_task = "running" THEN "cancelled" ELSE ui_task
    /\ spc' = IF sel_connected THEN "returned" ELSE "menu"
    /\ UNCHANGED <<ui_update_needed, found_devices, clock, typed, pending,
                   sel_connected>>
    /\ UNCHANGED not_svars

InitS ==
    /\ IdleRunner
    /\ NoDiscovery
    /\ NoLookup
    /\ NoManager
    /\ NoCliRun
    /\ NotSelecting
    /\ spc = "idle"

NextS ==
    \/ Selection_Call
    \/ Scan_Sleep
    \/ Scan_Finish
    \/ DeviceFound
    \/ UI_Update
    \/ UI_Stop
    \/ \E line \in {"empty", "number", "text"} : UserInput(line)
    \/ \E success \in BOOLEAN : Gather_Done(success)
    \/ Loop_Test
    \/ Selection_Cleanup

\* the event loop runs every coroutine that can go on and time passes; the
\* user and the devices are free to do nothing
SelectionFairness ==
    /\ WF_vars(Selection_Call)
    /\ WF_vars(Scan_Sleep)
    /\ WF_vars(Scan_Finish)
    /\ WF_vars(UI_Update)
    /\ WF_vars(UI_Stop)
    /\ WF_vars(\E success \in BOOLEAN : Gather_Done(success))
    /\ WF_vars(Loop_Test)
    /\ WF_vars(Selection_Cleanup)

SpecS == InitS /\ [][NextS]_vars /\ SelectionFairness

\* the scanning loop was left, both tasks are stopped and the menu is shown
MenuShown == spc = "menu" /\ scan_task = "done" /\ ui_task # "running"

\* C37: the user may wait for the scan to complete: when the scan reaches
\* its timeout and the user never enters anything, dynamic_device_selection
\* eventually leaves the scanning loop, stops the scan and UI tasks and
\* shows the selection menu.
C37_WaitingShowsMenu == <>(typed \/ MenuShown)

-----------------------------------------------------------------------------
(***************************************************************************)
(* The command line: run_ble_tests, _run_test_modules and _perform_cleanup *)
(* (src/test_a_ble/cli.py lines 651-680, 734-857).                         *)
(*                                                                         *)
(* A batch is the list of tests of one module.  run_tests is taken as one  *)
(* step: every test of the batch that has no result yet ends with a status *)
(* (run_test lines 56-61 return the result a test already has), and the    *)
(* summary is the one TestContext.get_test_summary() gives, which is       *)
(* called without arguments on the context the runner keeps for its life   *)
(* (test_runner.py lines 29, 121).                                         *)
(***************************************************************************)

MaxModules == 2    \* longest list of batches handed to _run_test_modules

\* the tests of three modules
ModuleBatches == { <<"t1">>, <<"t2", "t3">>, <<"t4">> }

\* lists of batches that hold no module twice
ModuleLists ==
    { found \in UNION { [1..n -> ModuleBatches] : n \in 0..MaxModules } :
        \A i, j \in 1..Len(found) : found[i] = found[j] => i = j }

\* the tests that have an entry in a results mapping
Entries(results) == { t \in TestNames : results[t] # "ABSENT" }

\* TestContext.get_test_summary(): the results of the context and their counts
get_test_summary(results) ==
    [results |-> results,
     passed_tests |-> Cardinality({ t \in TestNames : results[t] = "PASS" }),
     failed_tests |-> Cardinality({ t \in TestNames : results[t] = "FAIL" }),
     total_tests |-> Cardinality(Entries(results))]

\* the context's results after run_tests(batch) when the tests that run end
\* as `ends` says
ResultsAfter(batch, ends, results) ==
    [t \in TestNames |->
        IF Contains(batch, t) /\ results[t] = "ABSENT" THEN ends[t] ELSE results[t]]

\* _run_test_modules lines 673-678: the summary of a batch is merged
Merged(sums, summary) ==
    [results |-> [t \in TestNames |->
                    IF summary.results[t] # "ABSENT"
                    THEN summary.results[t]
                    ELSE sums.results[t]],
     passed_tests |-> sums.passed_tests + summary.passed_tests,
     failed_tests |-> sums.failed_tests + summary.failed_tests,
     total_tests |-> sums.total_tests + summary.total_tests]

InitC ==
    /\ IdleRunner
    /\ NoDiscovery
    /\ NoLookup
    /\ NoManager
    /\ NoSelection
    /\ NotRunning
    /\ cpc = "idle"

\* run_ble_tests: _attempt_device_connection returns connected or not, or
\* raises; after it the runner is made (lines 831-838)
AttemptDeviceConnection(outcome) ==
    /\ cpc = "idle"
    /\ cli_connected' = (outcome = "connected")
    /\ cli_runner' = (outcome # "raised")
    /\ cli_exc' = IF outcome = "raised" THEN "Exception" ELSE "none"
    /\ cpc' = IF outcome = "connected" THEN "discover" ELSE "finally"
    /\ UNCHANGED <<run_modules, module_i, context_results, summed,
                   discoveries, context_cleanups, disconnects>>
    /\ UNCHANGED not_cvars

\* _discover_and_count_tests raises (lines 841, 743)
DiscoverAndCount_Raise ==
    /\ cpc = "discover"
    /\ discoveries' = discoveries + 1
    /\ cli_exc' = "Exception"
    /\ cpc' = "finally"
    /\ UNCHANGED <<cli_connected, cli_runner, run_modules, module_i,
                   context_results, summed, context_cleanups, disconnects>>
    /\ UNCHANGED not_cvars

\* _discover_and_count_tests returns the batches; run_ble_tests returns when
\* there is none, else _run_test_modules begins (lines 841-846, 661-666)
DiscoverAndCount(found) ==
    /\ cpc = "discover"
    /\ discoveries' = discoveries + 1
    /\ run_modules' = found
    /\ module_i' = 0
    /\ summed' = NoResults
    /\ cpc' = IF found = <<>> THEN "finally" ELSE "run"
    /\ UNCHANGED <<cli_connected, cli_runner, cli_exc, context_results,
                   context_cleanups, disconnects>>
    /\ UNCHANGED not_cvars

\* _run_test_modules: run_tests of the next batch returns its summary, which
\* is merged (lines 669-678)
RunModule(ends) ==
    /\ cpc = "run"
    /\ module_i < Len(run_modules)
    /\ context_results' =
          ResultsAfter(run_modules[module_i + 1], ends, context_results)
    /\ summed' =
          Merged(summed,
                 get_test_summary(ResultsAfter(run_modules[module_i + 1], ends,
                                               context_results)))
    /\ module_i' = module_i + 1
    /\ UNCHANGED <<cpc, cli_connected, cli_runner, cli_exc, run_modules,
                   discoveries, context_cleanups, disconnects>>
    /\ UNCHANGED not_cvars

\* _run_test_modules: an exception leaves run_tests of the next batch
\* (line 671), after its tests ended as `ends` says
RunModule_Raise(ends, raised) ==
    /\ cpc = "run"
    /\ module_i < Len(run_modules)
    /\ context_results' =
          ResultsAfter(run_modules[module_i + 1], ends, context_results)
    /\ module_i' = module_i + 1
    /\ cli_exc' = raised
    /\ cpc' = "finally"
    /\ UNCHANGED <<cli_connected, cli_runner, run_modules, summed,
                   discoveries, context_cleanups, disconnects>>
    /\ UNCHANGED not_cvars

\* _run_test_modules returns and the results are printed (lines 680, 848-852)
RunModules_Return ==
    /\ cpc = "run"
    /\ module_i = Len(run_modules)
    /\ cpc' = "finally"
    /\ UNCHANGED <<cli_connected, cli_runner, cli_exc, run_modules, module_i,
                   context_results, summed, discoveries, context_cleanups,
                   disconnects>>
    /\ UNCHANGED not_cvars

\* the finally clause when no runner was made (lines 854-857)
Finally_NoRunner ==
    /\ cpc = "finally"
    /\ ~cli_runner
    /\ cpc' = "ended"
    /\ UNCHANGED <<cli_connected, cli_runner, cli_exc, run_modules, module_i,
                   context_results, summed, discoveries, context_cleanups,
                   disconnects>>
    /\ UNCHANGED not_cvars

\* _perform_cleanup without the try around cleanup_tasks: its exception
\* leaves the function before the disconnect
PerformCleanup_Unguarded(cleanup_raises, disconnect_raises) ==
    /\ cpc = "finally"
    /\ cli_runner
    /\ disconnect_raises => (cli_connected /\ ~cleanup_raises)
    /\ context_cleanups' =
          Append(context_cleanups, IF cleanup_raises THEN "raised" ELSE "returned")
    /\ disconnects' =
          IF cli_connected /\ ~cleanup_raises
          THEN Append(disconnects, IF disconnect_raises THEN "raised" ELSE "returned")
          ELSE disconnects
    /\ cli_exc' = IF cleanup_raises THEN "Exception" ELSE cli_exc
    /\ cpc' = "ended"
    /\ UNCHANGED <<cli_connected, cli_runner, run_modules, module_i,
                   context_results, summed, discoveries>>
    /\ UNCHANGED not_cvars

\* the finally clause with a runner: _perform_cleanup (lines 792-819) awaits
\* cleanup_tasks and, when connected, disconnect; an exception of either is
\* logged
PerformCleanup(cleanup_raises, disconnect_raises) ==
    /\ cpc = "finally"
    /\ cli_runner
    /\ disconnect_raises => cli_connected
    /\ context_cleanups' =
          Append(context_cleanups, IF cleanup_raises THEN "raised" ELSE "returned")
    /\ disconnects' =
          IF cli_connected
          THEN Append(disconnects, IF disconnect_raises THEN "raised" ELSE "returned")
          ELSE disconnects
    /\ cpc' = "ended"
    /\ UNCHANGED <<cli_connected, cli_runner, cli_exc, run_modules, module_i,
                   context_results, summed, discoveries>>
    /\ UNCHANGED not_cvars

NextC ==
    \/ \E outcome \in {"connected", "failed", "raised"} :
          AttemptDeviceConnection(outcome)
    \/ DiscoverAndCount_Raise
    \/ \E found \in ModuleLists : DiscoverAndCount(found)
    \/ \E ends \in [TestNames -> TerminalStatuses] : RunModule(ends)
    \/ \E ends \in [TestNames -> TerminalStatuses],
          raised \in {"Exception", "Interrupt"} : RunModule_Raise(ends, raised)
    \/ RunModules_Return
    \/ Finally_NoRunner
    \/ \E cleanup_raises \in BOOLEAN, disconnect_raises \in BOOLEAN :
          PerformCleanup(cleanup_raises, disconnect_raises)

SpecC == InitC /\ [][NextC]_vars

\* C38: when the connection succeeded, disconnect is called exactly once
\* before run_ble_tests ends, also when discovery or the tests raise and when
\* cleanup_tasks raises; when the connection failed, nothing is discovered or
\* run and disconnect is not called.
C38_DisconnectOnceIfConnected ==
    cpc = "ended" =>
        IF cli_connected
        THEN Len(disconnects) = 1
        ELSE /\ disconnects = <<>>
             /\ discoveries = 0
             /\ module_i = 0
             /\ Entries(context_results) = {}

\* the tests raised, cleanup_tasks raised, and the device was disconnected
C38_Witness ==
    /\ cpc = "ended"
    /\ cli_connected
    /\ cli_exc # "none"
    /\ module_i > 0
    /\ context_cleanups = <<"raised">>
    /\ Len(disconnects) = 1

\* C39: over the batches _run_test_modules runs on one TestRunner each test
\* result is counted once: total_tests of the aggregate is the number of
\* entries of its results mapping, and passed_tests + failed_tests is at
\* most total_tests.
C39_EachResultCountedOnce ==
    (cpc = "run" /\ module_i = Len(run_modules)) =>
        /\ summed.total_tests = Cardinality(Entries(summed.results))
        /\ summed.passed_tests + summed.failed_tests <= summed.total_tests

====
